---- MODULE Spec2Model ----
(***************************************************************************)
(* A model of metagent, an orchestrator of stage-based tasks that are run  *)
(* by an external agent process.  Several orchestrator processes share a   *)
(* filesystem-resident store: claim files (leases), task records, session  *)
(* records and issue files.                                                *)
(*                                                                         *)
(*   SpecClaim  the Claim/Lease manager: claim_task, step by step          *)
(*              (exclusive create, metadata write, read of the existing    *)
(*              claim, removal of a stale claim, retry), ClaimGuard drop,  *)
(*              process death and the passing of time.                     *)
(*   SpecRun    two orchestrator processes, each running one of run,       *)
(*              run-next <task>, run-next and run-queue, over one task,    *)
(*              with the agent calling finish, exiting or interrupted.     *)
(*   SpecWork   one orchestrator process over two tasks, one of them with  *)
(*              a claim file left behind, while the operator holds and     *)
(*              deletes tasks.                                             *)
(*   SpecTask   one task under the operator's commands (task, set-stage,   *)
(*              hold, activate, issue add/assign/resolve), finish calls    *)
(*              and one run-next <task>, for either agent kind.            *)
(*   SpecStranded  SpecWork over a store with a completed task that        *)
(*              still has an open issue.                                   *)
(*   SpecLoop   one run-queue call with a loop limit over a task whose     *)
(*              reviews keep sending it back to build.                     *)
(*   SpecFinish finish calls with any stage and next-stage words.          *)
(*   SpecLock   update_task step by step (lock file, load, temporary       *)
(*              file, rename) by two processes, with a third one reading.  *)
(*   SpecIssue  issue resolve and issue assign step by step by two         *)
(*              processes over one issue file.                             *)
(*   SpecQueue  next_eligible_task and reorder over small task lists.      *)
(*   SpecShutdown  terminate_child step by step over the agent's process   *)
(*              tree, whose processes spawn, ignore signals and exit.      *)
(*   SpecShutdownFair  SpecShutdown with terminate_child's steps and the   *)
(*              exit of signalled processes weakly fair.                   *)
(*   SpecModel  the model selection of run_stage for one stage attempt.    *)
(*   SpecAttempt  one process running run, run-next, run-queue or start    *)
(*              once, the agent finishing, exiting or interrupted.         *)
(*   SpecReject hold, reorder, issue add and issue assign with what they   *)
(*              return to their caller.                                    *)
(*   SpecDelete delete with and without --force over tasks with issues.    *)
(*   SpecCreate task and queue for a task that exists or does not.         *)
(*   SpecStages next_stage followed from every stage of either agent.      *)
(*   SpecText   an issue rendered to its file text and parsed back.        *)
(*   SpecBusy   SpecWork, also with a task claimed by another live worker. *)
(*   SpecSkew   SpecClaim over a claim file whose started_at is ahead of   *)
(*              the clock of the processes that read it.                   *)
(***************************************************************************)
EXTENDS Integers, FiniteSets, Sequences, TLC

\* ------------------------------------------------------------------ bounds
\* seconds added to the clock by one Tick
TickStep == 1800
\* the clock stops advancing here
MaxNow == 5400
\* how many orchestrator processes may be killed (SIGKILL, no Drop runs)
MaxCrashes == 1
\* the largest --loop-limit given to run-queue
MaxLoopLimit == 2

\* --------------------------------------------------------------- universe
\* process ids of the orchestrator processes
Procs == {1, 2, 3}
\* host name of each process: 1 and 2 share a host, 3 is on another one
HostOf(p) == IF p = 3 THEN "h2" ELSE "h1"
Tasks == {"t1", "t2", "t3"}
\* the tasks of the specifications that run commands over two tasks
WorkTasks == {"t1", "t2"}
\* the task the lease harness of SpecClaim contends for
ClaimTasks == {"t1"}
NoTask == "-"

\* ttl_seconds passed by every caller of claim_task
TTL == 3600

\* --------------------------------------------------------------- state
VARIABLES
    claims,     \* claims/<task>.lock : NoFile, an empty file, or a ClaimState
    now,        \* wall clock, seconds
    alive,      \* the processes for which kill(pid, 0) == 0
    pc,         \* position of each process in its command
    cmd,        \* the command a process runs (or ran last)
    cur,        \* the task a process is working on
    guard,      \* the ClaimGuard a process holds: a task, or NoTask
    ret,        \* what the last claim_task call returned
    claimedAt,  \* started_at of the claim a process wrote last
    reclaim,    \* history: "solo" while a call reclaims a stale claim alone
    agent,      \* the agent kind of the store (ctx.agent)
    tasks,      \* tasks/<name>/task.json
    issues,     \* issues/<id>.md
    sessions,   \* sessions/<id>/session.json
    op,         \* the short operator command in flight (issue, set-stage, ...)
    fin,        \* the finish call in flight
    stageL,     \* the stage a command loaded and passes to run_stage
    loops,      \* run-queue: review_loops
    limit,      \* run-queue: loop_limit
    sid,        \* run_stage: the session id of the attempt
    child,      \* run_stage: the spawned agent process
    intr,       \* the INTERRUPTED flag of a process
    res,        \* the StageResult run_stage returned
    flock,      \* tasks/<name>/task.json.lock : the process holding the flock, or 0
    tmp,        \* tasks/<name>/task.json.tmp
    torn,       \* the tasks whose task.json holds an incomplete write
    mem,        \* the record a process has loaded into memory
    hist,       \* history: the mutators of update_task in the order of their renames
    trips,      \* history: review->build round trips of each task in a run-queue call
    ptab,       \* the operating system's process table: the agent's process tree
    tc,         \* terminate_child: its position and its local variables
    sel,        \* run_stage: the model selection of a stage attempt
    out,        \* the outcome of the operator's last command: Ok or the error
    descr,      \* tasks/<name>/task.json: the description field
    walk,       \* next_stage followed from a stage: where it started and its path
    doc         \* an issue, the text render_issue makes of it, what parse_issue reads back

claimVars == <<claims, now, alive>>
leaseVars == <<guard, ret, claimedAt, reclaim>>
procVars == <<pc, cmd, cur, guard, ret, claimedAt, reclaim>>
\* the variables of the file-level steps (with_lock, write_json_atomic)
fileVars == <<flock, tmp, torn, mem, hist>>
\* the variables of the graceful shutdown (terminate_child)
treeVars == <<ptab, tc>>
\* the variables of the calls that are followed on their own
pureVars == <<sel>>
\* what the caller of a command sees
outVars == <<out, descr>>
\* the functions that are followed on their own
fnVars == <<walk, doc>>
lateVars == <<treeVars, pureVars, outVars, fnVars>>
auxVars == <<fileVars, trips, lateVars>>
\* everything but the variables of the graceful shutdown
shutdownRest == <<claims, now, alive, pc, cmd, cur, guard, ret, claimedAt,
                  reclaim, agent, tasks, issues, sessions, op, fin, stageL,
                  loops, limit, sid, child, intr, res, fileVars, trips,
                  pureVars, outVars, fnVars>>
storeVars == <<agent, auxVars, tasks, issues, sessions>>
callVars == <<op, fin>>
runVars == <<stageL, loops, limit, sid, child, intr, res>>
otherVars == <<agent, auxVars, tasks, issues, sessions, op, fin,
               stageL, loops, limit, sid, child, intr, res>>
vars == <<claims, now, alive, pc, cmd, cur, guard, ret, claimedAt, reclaim,
          agent, tasks, issues, sessions, op, fin,
          stageL, loops, limit, sid, child, intr, res,
          flock, tmp, torn, mem, hist, trips, ptab, tc, sel, out, descr,
          walk, doc>>

\* ------------------------------------------------------------ claim files
NoFile == [kind |-> "absent"]
\* a file created by create_new whose metadata is not written yet
EmptyFile(p) == [kind |-> "empty", creator |-> p]
ClaimState(p, t, at) ==
    [kind |-> "claim", task |-> t, pid |-> p, host |-> HostOf(p),
     started_at |-> at, ttl_seconds |-> TTL]

\* read_claim succeeds only on a file that holds a serialized ClaimState
read_claim_ok(f) == f.kind = "claim"

is_pid_alive(pid) == pid \in alive

\* elapsed.num_seconds() as u64 > ttl_seconds: a negative i64 becomes a
\* value of at least 2^63, which exceeds every ttl the callers pass
ElapsedReachesTtl(elapsed, ttl) == IF elapsed < 0 THEN TRUE ELSE elapsed >= ttl

ElapsedExceedsTtl(elapsed, ttl) == IF elapsed < 0 THEN TRUE ELSE elapsed > ttl

TtlOnlyWhenOwnerDead(claim, host) ==
    IF claim.host = host
    THEN ~is_pid_alive(claim.pid)
    ELSE ElapsedExceedsTtl(now - claim.started_at, claim.ttl_seconds)

is_claim_stale(claim, host) ==
    IF ElapsedExceedsTtl(now - claim.started_at, claim.ttl_seconds)
    THEN TRUE
    ELSE IF claim.host = host THEN ~is_pid_alive(claim.pid) ELSE FALSE

CreateAlwaysSucceeds(f) == TRUE

\* create_new(true): the file is created only when it does not exist
CreateNewSucceeds(f) == f.kind = "absent"

\* ------------------------------------------------------------- helpers
\* a claim that is within its ttl and whose owner is on another host or is
\* a live process on the caller's host
LiveClaim(claim, host) ==
    /\ now - claim.started_at >= 0
    /\ now - claim.started_at <= claim.ttl_seconds
    /\ (claim.host # host \/ claim.pid \in alive)

\* a claim whose started_at is older than now - ttl_seconds, or whose owner
\* is a dead process on the caller's host
ExpiredOrOrphaned(claim, host) ==
    \/ claim.started_at < now - claim.ttl_seconds
    \/ (claim.host = host /\ claim.pid \notin alive)

\* another process changes the claim file of task t: a call of q that was
\* reclaiming alone is no longer alone
Raced(p, t) ==
    [q \in Procs |->
        IF q # p /\ cur[q] = t /\ reclaim[q] = "solo" THEN "raced" ELSE reclaim[q]]

\* ---------------------------------------------------------- claim_task
\* OpenOptions::new().write(true).create_new(true).open(&path)
ClaimCreate(p) ==
    /\ pc[p] = "claim_create"
    /\ IF CreateNewSucceeds(claims[cur[p]])
       THEN /\ claims' = [claims EXCEPT ![cur[p]] = EmptyFile(p)]
            /\ pc' = [pc EXCEPT ![p] = "claim_write"]
            /\ reclaim' = Raced(p, cur[p])
       ELSE /\ pc' = [pc EXCEPT ![p] = "claim_read"]
            /\ UNCHANGED <<claims, reclaim>>
    /\ UNCHANGED <<now, alive, cmd, cur, guard, ret, claimedAt>>
    /\ UNCHANGED otherVars

\* file.write_all(data): the metadata goes to the file this call created;
\* if that file was unlinked meanwhile the path is not affected
WriteClaim(p) ==
    /\ claims' = IF claims[cur[p]] = EmptyFile(p)
                 THEN [claims EXCEPT ![cur[p]] = ClaimState(p, cur[p], now)]
                 ELSE claims
    /\ guard' = [guard EXCEPT ![p] = cur[p]]
    /\ ret' = [ret EXCEPT ![p] = "lease"]
    /\ claimedAt' = [claimedAt EXCEPT ![p] = now]
    /\ pc' = [pc EXCEPT ![p] = "claim_ret"]
    /\ reclaim' = Raced(p, cur[p])
    /\ UNCHANGED <<now, alive, cmd, cur>>
    /\ UNCHANGED otherVars

ClaimWrite(p) ==
    /\ pc[p] = "claim_write"
    /\ WriteClaim(p)

\* read_claim(&path) and is_claim_stale(&existing, host)
ClaimRead(p) ==
    /\ pc[p] = "claim_read"
    /\ IF read_claim_ok(claims[cur[p]]) /\ is_claim_stale(claims[cur[p]], HostOf(p))
       THEN /\ pc' = [pc EXCEPT ![p] = "claim_remove"]
            /\ UNCHANGED ret
       ELSE /\ pc' = [pc EXCEPT ![p] = "claim_ret"]
            /\ ret' = [ret EXCEPT ![p] = "none"]
    /\ reclaim' = [reclaim EXCEPT ![p] =
            IF read_claim_ok(claims[cur[p]])
               /\ ExpiredOrOrphaned(claims[cur[p]], HostOf(p))
            THEN "solo" ELSE "no"]
    /\ UNCHANGED <<claims, now, alive, cmd, cur, guard, claimedAt>>
    /\ UNCHANGED otherVars

\* fs::remove_file(&path).ok()
ClaimRemove(p) ==
    /\ pc[p] = "claim_remove"
    /\ claims' = [claims EXCEPT ![cur[p]] = NoFile]
    /\ pc' = [pc EXCEPT ![p] = "claim_retry"]
    /\ reclaim' = Raced(p, cur[p])
    /\ UNCHANGED <<now, alive, cmd, cur, guard, ret, claimedAt>>
    /\ UNCHANGED otherVars

\* the second create_new, after the stale claim was removed
ClaimRetry(p) ==
    /\ pc[p] = "claim_retry"
    /\ IF CreateNewSucceeds(claims[cur[p]])
       THEN /\ claims' = [claims EXCEPT ![cur[p]] = EmptyFile(p)]
            /\ pc' = [pc EXCEPT ![p] = "claim_rewrite"]
            /\ reclaim' = Raced(p, cur[p])
            /\ UNCHANGED ret
       ELSE /\ pc' = [pc EXCEPT ![p] = "claim_ret"]
            /\ ret' = [ret EXCEPT ![p] = "none"]
            /\ UNCHANGED <<claims, reclaim>>
    /\ UNCHANGED <<now, alive, cmd, cur, guard, claimedAt>>
    /\ UNCHANGED otherVars

ClaimRewrite(p) ==
    /\ pc[p] = "claim_rewrite"
    /\ WriteClaim(p)

claim_task(p) ==
    \/ ClaimCreate(p)
    \/ ClaimWrite(p)
    \/ ClaimRead(p)
    \/ ClaimRemove(p)
    \/ ClaimRetry(p)
    \/ ClaimRewrite(p)

\* ---------------------------------------------------------- ClaimGuard
\* Drop for ClaimGuard: fs::remove_file(&self.path), whatever the file holds
DropGuard(p) ==
    IF guard[p] = NoTask THEN claims ELSE [claims EXCEPT ![guard[p]] = NoFile]

\* ------------------------------------------------------- lease harness
\* a caller of claim_task that keeps the guard for a while and drops it
StartClaim(p, t) ==
    /\ pc[p] = "idle"
    /\ cmd' = [cmd EXCEPT ![p] = "claim"]
    /\ cur' = [cur EXCEPT ![p] = t]
    /\ ret' = [ret EXCEPT ![p] = "pending"]
    /\ reclaim' = [reclaim EXCEPT ![p] = "no"]
    /\ pc' = [pc EXCEPT ![p] = "claim_create"]
    /\ UNCHANGED <<claims, now, alive, guard, claimedAt>>
    /\ UNCHANGED otherVars

ReleaseClaim(p) ==
    /\ pc[p] = "claim_ret"
    /\ cmd[p] = "claim"
    /\ claims' = DropGuard(p)
    /\ guard' = [guard EXCEPT ![p] = NoTask]
    /\ reclaim' = IF guard[p] = NoTask THEN reclaim ELSE Raced(p, guard[p])
    /\ pc' = [pc EXCEPT ![p] = "idle"]
    /\ UNCHANGED <<now, alive, cmd, cur, ret, claimedAt>>
    /\ UNCHANGED otherVars

\* ---------------------------------------------------------- environment
\* the process is killed: no destructor runs, its claim file stays behind
Crash(p) ==
    /\ p \in alive
    /\ pc[p] # "idle"
    /\ Cardinality(Procs \ alive) < MaxCrashes
    /\ alive' = alive \ {p}
    /\ pc' = [pc EXCEPT ![p] = "dead"]
    /\ UNCHANGED <<claims, now, cmd, cur, guard, ret, claimedAt, reclaim>>
    /\ UNCHANGED otherVars

Tick ==
    /\ now + TickStep <= MaxNow
    /\ now' = now + TickStep
    /\ UNCHANGED <<claims, alive>>
    /\ UNCHANGED procVars
    /\ UNCHANGED otherVars

\* =================================================================
\* Stage Model (agent.rs)
\* =================================================================
NoStage == "-"

stages(a) ==
    IF a = "code"
    THEN {"spec", "spec-review", "spec-review-issues", "planning", "build",
          "review", "completed"}
    ELSE {"init", "plan", "write", "edit", "completed"}

queue_stages(a) ==
    IF a = "code" THEN <<"spec-review-issues", "build", "review">>
    ELSE <<"write", "edit">>

initial_stage(a) == IF a = "code" THEN "spec" ELSE "init"

\* review sends the task back to build
RetryStage(a, stage) ==
    IF a = "code"
    THEN CASE stage = "spec" -> "planning"
           [] stage = "spec-review" -> "planning"
           [] stage = "spec-review-issues" -> "planning"
           [] stage = "planning" -> "build"
           [] stage = "build" -> "review"
           [] stage = "review" -> "build"
           [] stage = "task" -> "completed"
           [] OTHER -> NoStage
    ELSE CASE stage = "init" -> "plan"
           [] stage = "plan" -> "write"
           [] stage = "write" -> "edit"
           [] stage = "edit" -> "completed"
           [] OTHER -> NoStage

next_stage(a, stage) ==
    IF a = "code"
    THEN CASE stage = "spec" -> "planning"
           [] stage = "spec-review" -> "planning"
           [] stage = "spec-review-issues" -> "planning"
           [] stage = "planning" -> "build"
           [] stage = "build" -> "review"
           [] stage = "review" -> "completed"
           [] stage = "task" -> "completed"
           [] OTHER -> NoStage
    ELSE CASE stage = "init" -> "plan"
           [] stage = "plan" -> "write"
           [] stage = "write" -> "edit"
           [] stage = "edit" -> "completed"
           [] OTHER -> NoStage

valid_finish_stages(a) ==
    IF a = "code"
    THEN {"spec", "spec-review", "spec-review-issues", "planning", "build",
          "review", "task"}
    ELSE {"init", "plan", "write", "edit"}

\* =================================================================
\* Records of the store (state.rs, issues.rs)
\* =================================================================
\* no tasks/<name>/task.json
NoRec == [exists |-> FALSE, stage |-> NoStage, status |-> "-", held |-> FALSE,
          last_session |-> <<>>, queue_rank |-> <<>>, added_at |-> 0]

\* create_task_state: status Pending, last_session None, queue_rank None
\* (<<>> is None, <<r>> is Some(r))
NewTaskState(stage, hold, at) ==
    [exists |-> TRUE, stage |-> stage, status |-> "pending", held |-> hold,
     last_session |-> <<>>, queue_rank |-> <<>>, added_at |-> at]

NoSession == [status |-> "none", task |-> NoTask, stage |-> NoStage,
              next_stage |-> NoStage, pid |-> 0, finished_at |-> FALSE]

\* the session ids new_session_id can produce: <<epoch seconds, pid>>
SessionIds == {n \in 0..MaxNow : n % TickStep = 0} \X Procs
NoSid == <<>>

IssueIds == {"i1", "i2"}
\* IssueType: spec routes to spec-review-issues, every other type to build
IssueTypes == {"spec", "build"}
NoIssue == [status |-> "none", task |-> NoTask, type |-> "-"]

task_has_open_issues(t) ==
    \E i \in IssueIds : issues[i].status = "open" /\ issues[i].task = t

determine_next_status(stage, override_next, nstage, has_open_issues) ==
    IF has_open_issues THEN "issues"
    ELSE IF nstage = "completed" THEN "completed"
    ELSE IF stage = "review" /\ override_next
         THEN (IF nstage = "spec-review-issues" THEN "pending" ELSE "issues")
         ELSE "pending"

issue_default_stage(a, type) ==
    IF a # "code" THEN NoStage
    ELSE IF type = "spec" THEN "spec-review-issues" ELSE "build"

AnyStageAtAll(a, stage) == TRUE

\* agent.stages().contains(&stage)
AnyKnownStage(a, stage) == stage \in stages(a)

\* Ok(()) of validate_issue_stage
validate_issue_stage(a, stage) == stage \in stages(a) /\ stage # "completed"

\* the short commands and the finish call: nothing in flight
IdleOp == [kind |-> "idle"]
IdleFin == [pc |-> "idle"]
\* no command has returned since the caller looked last
IdleOut == [cmd |-> "none"]
\* description: None
NoDescription == <<>>
\* no stage is being followed, no issue is being written
NoWalk == <<>>
NoDoc == [pc |-> "none"]

\* =================================================================
\* finish (cmd_finish), in its three accesses to the store
\* =================================================================
KeepResolvedNext(rnext, has_open_issues) == rnext

\* "Don't allow moving to completed if there are open issues"
DowngradeNext(rnext, has_open_issues) ==
    IF has_open_issues /\ rnext = "completed" THEN "build" ELSE rnext

\* without --next the task stays at the stage that was finished
ResolvedNextUnchecked(a, stage, next) ==
    IF next # NoStage THEN next ELSE stage

\* resolved_next as first bound, before the open-issue check (fin.resolved);
\* fin.rnext is the second binding, after the check
ResolvedNext(a, stage, next) ==
    IF next # NoStage THEN next
    ELSE IF stage = "task" THEN "completed"
    ELSE next_stage(a, stage)

\* validation, session and task resolution, save_session(Finished)
FinishStart(stage, next, s, t) ==
    /\ fin.pc = "idle"
    /\ stage \in valid_finish_stages(agent)
    /\ next = NoStage \/ AnyKnownStage(agent, next)
    /\ sessions[s].status # "none"
    /\ LET task == IF t # NoTask THEN t ELSE sessions[s].task
           rnext == ResolvedNext(agent, stage, next)
       IN /\ stage # "task" => task # NoTask
          /\ rnext # NoStage
          /\ sessions' = [sessions EXCEPT ![s] =
                 [@ EXCEPT !.status = "finished", !.next_stage = rnext,
                           !.finished_at = TRUE,
                           !.task = IF task # NoTask THEN task ELSE @]]
          /\ fin' = [pc |-> "saved", stage |-> stage, override |-> next # NoStage,
                     sid |-> s, task |-> task, resolved |-> rnext,
                     rnext |-> rnext, has_open |-> FALSE]
    /\ UNCHANGED <<claimVars, procVars, agent, auxVars, tasks, issues, op, runVars>>

\* task_has_open_issues and the downgrade of the next stage
FinishCheck ==
    /\ fin.pc = "saved"
    /\ LET has_open == IF fin.task # NoTask THEN task_has_open_issues(fin.task)
                       ELSE FALSE
       IN fin' = [fin EXCEPT !.pc = "checked", !.has_open = has_open,
                             !.rnext = DowngradeNext(fin.rnext, has_open)]
    /\ UNCHANGED <<claimVars, procVars, storeVars, op, runVars>>

\* update_task(stage, last_session, status); "Task not found" changes nothing
FinishWrite ==
    /\ fin.pc = "checked"
    /\ tasks' = IF fin.task # NoTask /\ tasks[fin.task].exists
                THEN [tasks EXCEPT ![fin.task] =
                        [@ EXCEPT !.stage = fin.rnext,
                                  !.last_session = fin.sid,
                                  !.status = determine_next_status(
                                      fin.stage, fin.override, fin.rnext,
                                      fin.has_open)]]
                ELSE tasks
    /\ fin' = IdleFin
    /\ UNCHANGED <<claimVars, procVars, agent, auxVars, issues, sessions, op, runVars>>

\* "Unknown stage" / "Unknown next stage": the call returns the error
\* before it has resolved the session; fin keeps the refused arguments
FinishReject(stage, next) ==
    /\ fin.pc = "idle"
    /\ \/ stage \notin valid_finish_stages(agent)
       \/ next # NoStage /\ ~AnyKnownStage(agent, next)
    /\ fin' = [pc |-> "rejected", stage |-> stage, next |-> next]
    /\ UNCHANGED <<claimVars, procVars, storeVars, op, runVars>>

\* the caller has seen the error
FinishAck ==
    /\ fin.pc = "rejected"
    /\ fin' = IdleFin
    /\ UNCHANGED <<claimVars, procVars, storeVars, op, runVars>>


\* =================================================================
\* Short commands: task, set-stage, hold, activate, issue, delete.
\* A command that touches the store more than once leaves its next
\* access in op; one such command is in flight at a time.
\* =================================================================
\* cmd_task: an existing task is left as it is
TaskCreate(t, hold) ==
    /\ ~tasks[t].exists
    /\ tasks' = [tasks EXCEPT ![t] = NewTaskState(initial_stage(agent), hold, now)]
    /\ UNCHANGED <<claimVars, procVars, agent, auxVars, issues, sessions, callVars, runVars>>

\* cmd_set_stage without --status: validation and the open-issue check
SetStageStart(t, stage) ==
    /\ op.kind = "idle"
    /\ AnyKnownStage(agent, stage)
    /\ tasks[t].exists
    /\ LET has_open == IF agent = "code" THEN task_has_open_issues(t) ELSE FALSE
           status == IF has_open THEN "issues"
                     ELSE IF stage = "completed" THEN "completed" ELSE "pending"
       IN op' = [kind |-> "set_stage", task |-> t, stage |-> stage,
                 status |-> status]
    /\ UNCHANGED <<claimVars, procVars, storeVars, fin, runVars>>

SetStageWrite ==
    /\ op.kind = "set_stage"
    /\ tasks' = IF tasks[op.task].exists
                THEN [tasks EXCEPT ![op.task] =
                        [@ EXCEPT !.stage = op.stage, !.status = op.status]]
                ELSE tasks
    /\ op' = IdleOp
    /\ UNCHANGED <<claimVars, procVars, agent, auxVars, issues, sessions, fin, runVars>>

\* "Task is running. Finish it before holding."
HoldRefused(rec) == rec.status = "running"

\* cmd_hold: refused while the task is Running
Hold(t) ==
    /\ tasks[t].exists
    /\ ~HoldRefused(tasks[t])
    /\ ~tasks[t].held
    /\ tasks' = [tasks EXCEPT ![t].held = TRUE]
    /\ UNCHANGED <<claimVars, procVars, agent, auxVars, issues, sessions, callVars, runVars>>

\* cmd_activate: held = false, then sync_task_status_for_issues
Activate(t) ==
    /\ op.kind = "idle"
    /\ tasks[t].exists
    /\ tasks' = [tasks EXCEPT ![t].held = FALSE]
    /\ op' = [kind |-> "sync_list", task |-> t, cause |-> "activate"]
    /\ UNCHANGED <<claimVars, procVars, agent, auxVars, issues, sessions, fin, runVars>>

\* sync_task_status_for_issues: list_issues
SyncList ==
    /\ op.kind = "sync_list"
    /\ op' = IF tasks[op.task].exists
             THEN [kind |-> "sync_write", task |-> op.task, cause |-> op.cause,
                   has_open |-> task_has_open_issues(op.task)]
             ELSE IdleOp
    /\ UNCHANGED <<claimVars, procVars, storeVars, fin, runVars>>

SyncedStatusKept(rec, has_open) ==
    IF has_open THEN "issues" ELSE rec.status

SyncedStatus(rec, has_open) ==
    IF has_open THEN "issues"
    ELSE IF rec.stage = "completed" THEN "completed"
    ELSE IF rec.status = "issues" THEN "pending"
    ELSE rec.status

\* sync_task_status_for_issues: update_task
SyncWrite ==
    /\ op.kind = "sync_write"
    /\ tasks' = IF tasks[op.task].exists
                THEN [tasks EXCEPT ![op.task].status =
                        SyncedStatus(tasks[op.task], op.has_open)]
                ELSE tasks
    /\ op' = IdleOp
    /\ UNCHANGED <<claimVars, procVars, agent, auxVars, issues, sessions, fin, runVars>>

\* what an issue add/assign for task t does after the issue file is saved:
\* the stage override is validated, then update_task_for_issue runs
StageRejected(t, stage) ==
    t # NoTask /\ stage # NoStage /\ ~validate_issue_stage(agent, stage)

AfterIssueSaved(t, stage, type) ==
    IF t = NoTask \/ StageRejected(t, stage)
    THEN IdleOp
    ELSE [kind |-> "issue_update", task |-> t, override |-> stage,
          type |-> type, default |-> issue_default_stage(agent, type)]

\* cmd_issue_add: new_issue, save_issue
IssueAdd(i, t, type, stage) ==
    /\ agent = "code"
    /\ op.kind = "idle"
    /\ issues[i].status = "none"
    /\ issues' = [issues EXCEPT ![i] = [status |-> "open", task |-> t, type |-> type]]
    /\ op' = AfterIssueSaved(t, stage, type)
    /\ UNCHANGED <<claimVars, procVars, agent, auxVars, tasks, sessions, fin, runVars>>

\* cmd_issue_assign: load_issue, save_issue
IssueAssign(i, t, stage) ==
    /\ agent = "code"
    /\ op.kind = "idle"
    /\ issues[i].status # "none"
    /\ issues' = [issues EXCEPT ![i].task = t]
    /\ op' = IF issues[i].status = "resolved" THEN IdleOp
             ELSE AfterIssueSaved(t, stage, issues[i].type)
    /\ UNCHANGED <<claimVars, procVars, agent, auxVars, tasks, sessions, fin, runVars>>

\* the stage update_task_for_issue writes
StageKeptForIssue(rec, override, default) ==
    IF override # NoStage THEN override ELSE rec.stage

StageForIssue(rec, override, default) ==
    IF override # NoStage THEN override
    ELSE IF rec.stage = "completed" /\ default # NoStage THEN default
    ELSE rec.stage

\* update_task_for_issue
IssueUpdate ==
    /\ op.kind = "issue_update"
    /\ tasks' = IF tasks[op.task].exists
                THEN [tasks EXCEPT ![op.task] =
                        [@ EXCEPT !.stage = StageForIssue(tasks[op.task], op.override,
                                                         op.default),
                                  !.status = "issues"]]
                ELSE tasks
    /\ op' = IdleOp
    /\ UNCHANGED <<claimVars, procVars, agent, auxVars, issues, sessions, fin, runVars>>

\* cmd_issue_resolve: load_issue, save_issue, then the sync of its task
IssueResolve(i) ==
    /\ agent = "code"
    /\ op.kind = "idle"
    /\ issues[i].status # "none"
    /\ issues' = [issues EXCEPT ![i].status = "resolved"]
    /\ op' = IF issues[i].task # NoTask
             THEN [kind |-> "sync_list", task |-> issues[i].task,
                   cause |-> "resolve"]
             ELSE IdleOp
    /\ UNCHANGED <<claimVars, procVars, agent, auxVars, tasks, sessions, fin, runVars>>

\* open_issue_ids of cmd_delete
OpenIssuesOf(t) ==
    {i \in IssueIds : issues[i].status = "open" /\ issues[i].task = t}

\* "Task has open issues. Re-run with --force to delete and unassign them."
DeleteRefused(t, force) == OpenIssuesOf(t) # {} /\ ~force

\* cmd_delete: list_issues; open issues need --force
DeleteStart(t, force) ==
    /\ op.kind = "idle"
    /\ tasks[t].exists
    /\ ~DeleteRefused(t, force)
    /\ op' = [kind |-> "delete", task |-> t, todo |-> OpenIssuesOf(t),
              listed |-> issues]
    /\ UNCHANGED <<claimVars, procVars, storeVars, fin, runVars>>

\* the issue file is removed with the task
UnassignedDropped(rec) == NoIssue

\* "issue.task = None"
Unassigned(rec) == [rec EXCEPT !.task = NoTask]

\* cmd_delete --force: the listed issue is saved without its task
DeleteUnassign(i) ==
    /\ op.kind = "delete"
    /\ i \in op.todo
    /\ issues' = [issues EXCEPT ![i] = Unassigned(op.listed[i])]
    /\ op' = [op EXCEPT !.todo = @ \ {i}]
    /\ UNCHANGED <<claimVars, procVars, agent, auxVars, tasks, sessions, fin, runVars>>

\* cmd_delete: fs::remove_dir_all
DeleteRemove ==
    /\ op.kind = "delete"
    /\ op.todo = {}
    /\ tasks' = [tasks EXCEPT ![op.task] = NoRec]
    /\ op' = IdleOp
    /\ UNCHANGED <<claimVars, procVars, agent, auxVars, issues, sessions, fin, runVars>>


\* =================================================================
\* update_task, step by step (state.rs: with_lock, load_task,
\* write_json_atomic), and load_task by a process outside the lock
\* =================================================================
\* nothing loaded / no .tmp file
NoData == [state |-> "none", data |-> NoRec]
\* the content of a file that was written completely
Whole(rec) == [state |-> "whole", data |-> rec]
\* the content of a file whose fs::write has not returned
Partial == [state |-> "partial", data |-> NoRec]
\* fs::read_to_string of tasks/<t>/task.json
ReadTaskFile(t) == IF t \in torn THEN Partial ELSE Whole(tasks[t])

\* the closures the callers pass to update_task: cmd_hold, run_stage's
\* mark, cmd_set_stage
Mutators == {"hold", "mark", "stage"}
Mutate(m, rec) ==
    CASE m = "hold" -> [rec EXCEPT !.held = TRUE]
      [] m = "mark" -> [rec EXCEPT !.status =
                            IF @ = "issues" THEN "issues" ELSE "running"]
      [] m = "stage" -> [rec EXCEPT !.stage = "review", !.status = "pending"]
      [] OTHER -> rec

\* the mutators of a history applied one after another
RECURSIVE MutateAll(_, _)
MutateAll(h, rec) ==
    IF h = <<>> THEN rec ELSE MutateAll(Tail(h), Mutate(Head(h), rec))

\* update_task is entered
UpdateStart(p, t, m) ==
    /\ pc[p] = "idle"
    /\ tasks[t].exists
    /\ pc' = [pc EXCEPT ![p] = "ut_lock"]
    /\ cmd' = [cmd EXCEPT ![p] = m]
    /\ cur' = [cur EXCEPT ![p] = t]
    /\ UNCHANGED <<claimVars, leaseVars, storeVars, callVars, runVars>>

\* no lock on the file at all
LockNeverHeld(t) == TRUE

\* flock(LOCK_EX) returns when no other open file description holds the lock
LockFree(t) == flock[t] = 0

\* with_lock: lock_exclusive
LockExclusive(p) ==
    /\ pc[p] = "ut_lock"
    /\ LockFree(cur[p])
    /\ flock' = [flock EXCEPT ![cur[p]] = p]
    /\ pc' = [pc EXCEPT ![p] = "ut_load"]
    /\ UNCHANGED <<claimVars, cmd, cur, leaseVars, agent, tasks, issues, sessions,
                   tmp, torn, mem, hist, callVars, runVars, trips, lateVars>>

\* update_task: load_task, then the mutator on the copy in memory
UpdateLoad(p) ==
    /\ pc[p] = "ut_load"
    /\ mem' = [mem EXCEPT ![p] =
                 IF ReadTaskFile(cur[p]).state = "whole"
                 THEN Whole(Mutate(cmd[p], tasks[cur[p]]))
                 ELSE Partial]
    /\ pc' = [pc EXCEPT ![p] =
                 IF ReadTaskFile(cur[p]).state = "whole" THEN "ut_write"
                 ELSE "ut_unlock"]
    /\ UNCHANGED <<claimVars, cmd, cur, leaseVars, agent, tasks, issues, sessions,
                   flock, tmp, torn, hist, callVars, runVars, trips, lateVars>>

\* write_json_atomic: fs::write has created or truncated the .tmp file
WriteTmpBegin(p) ==
    /\ pc[p] = "ut_write"
    /\ tmp' = [tmp EXCEPT ![cur[p]] = Partial]
    /\ pc' = [pc EXCEPT ![p] = "ut_writing"]
    /\ UNCHANGED <<claimVars, cmd, cur, leaseVars, agent, tasks, issues, sessions,
                   flock, torn, mem, hist, callVars, runVars, trips, lateVars>>

\* write_json_atomic: fs::write has written all of the data
WriteTmpEnd(p) ==
    /\ pc[p] = "ut_writing"
    /\ tmp' = [tmp EXCEPT ![cur[p]] = mem[p]]
    /\ pc' = [pc EXCEPT ![p] = "ut_rename"]
    /\ UNCHANGED <<claimVars, cmd, cur, leaseVars, agent, tasks, issues, sessions,
                   flock, torn, mem, hist, callVars, runVars, trips, lateVars>>

\* write_json_atomic: fs::rename of the .tmp file over task.json; it fails
\* when the .tmp file is gone
RenameTmp(p) ==
    /\ pc[p] = "ut_rename"
    /\ LET t == cur[p]
       IN IF tmp[t].state = "none"
          THEN UNCHANGED <<tasks, torn, tmp, hist>>
          ELSE /\ tasks' = [tasks EXCEPT ![t] =
                              IF tmp[t].state = "whole" THEN tmp[t].data ELSE @]
               /\ torn' = IF tmp[t].state = "whole" THEN torn \ {t}
                          ELSE torn \cup {t}
               /\ tmp' = [tmp EXCEPT ![t] = NoData]
               /\ hist' = [hist EXCEPT ![t] = Append(@, cmd[p])]
    /\ pc' = [pc EXCEPT ![p] = "ut_unlock"]
    /\ UNCHANGED <<claimVars, cmd, cur, leaseVars, agent, issues, sessions,
                   flock, mem, callVars, runVars, trips, lateVars>>

\* with_lock: unlock, and update_task returns
Unlock(p) ==
    /\ pc[p] = "ut_unlock"
    /\ flock' = [flock EXCEPT ![cur[p]] = IF @ = p THEN 0 ELSE @]
    /\ pc' = [pc EXCEPT ![p] = "done"]
    /\ UNCHANGED <<claimVars, cmd, cur, leaseVars, agent, tasks, issues, sessions,
                   tmp, torn, mem, hist, callVars, runVars, trips, lateVars>>

\* the command of the process has returned; the next one begins
NextCommand(p) ==
    /\ pc[p] = "done"
    /\ pc' = [pc EXCEPT ![p] = "idle"]
    /\ mem' = [mem EXCEPT ![p] = NoData]
    /\ UNCHANGED <<claimVars, cmd, cur, leaseVars, agent, tasks, issues, sessions,
                   flock, tmp, torn, hist, callVars, runVars, trips, lateVars>>

\* load_task by a process that holds no lock (every reader of a record)
LoadTask(p, t) ==
    /\ pc[p] = "idle"
    /\ mem' = [mem EXCEPT ![p] = ReadTaskFile(t)]
    /\ pc' = [pc EXCEPT ![p] = "done"]
    /\ cmd' = [cmd EXCEPT ![p] = "load"]
    /\ cur' = [cur EXCEPT ![p] = t]
    /\ UNCHANGED <<claimVars, leaseVars, agent, tasks, issues, sessions,
                   flock, tmp, torn, hist, callVars, runVars, trips, lateVars>>

\* =================================================================
\* issue resolve and issue assign, access by access (commands.rs:
\* load_issue, save_issue, then the update of the task), for commands
\* that run in different processes
\* =================================================================
\* ensure_code_agent, then the command is entered; t is the task argument
\* of assign (resolve has none)
IssueCmdStart(p, c, t) ==
    /\ pc[p] = "idle"
    /\ agent = "code"
    /\ c \in {"issue_resolve", "issue_assign"}
    /\ (c = "issue_resolve") = (t = NoTask)
    /\ pc' = [pc EXCEPT ![p] = "is_load"]
    /\ cmd' = [cmd EXCEPT ![p] = c]
    /\ cur' = [cur EXCEPT ![p] = t]
    /\ UNCHANGED <<claimVars, leaseVars, storeVars, callVars, runVars>>

\* path.exists(), load_issue
IssueLoad(p, i) ==
    /\ pc[p] = "is_load"
    /\ IF issues[i].status = "none"
       THEN /\ pc' = [pc EXCEPT ![p] = "done"]
            /\ mem' = mem
       ELSE /\ pc' = [pc EXCEPT ![p] = "is_save"]
            /\ mem' = [mem EXCEPT ![p] = Whole(issues[i])]
    /\ UNCHANGED <<claimVars, cmd, cur, leaseVars, agent, tasks, issues, sessions,
                   flock, tmp, torn, hist, callVars, runVars, trips, lateVars>>

\* the issue as the command changed it in memory
Resolved(issue) == [issue EXCEPT !.status = "resolved"]
Assigned(issue, t) == [issue EXCEPT !.task = t]

\* save_issue of the changed copy; what follows depends on the copy
IssueSave(p, i) ==
    /\ pc[p] = "is_save"
    /\ issues' = [issues EXCEPT ![i] =
                    IF cmd[p] = "issue_resolve" THEN Resolved(mem[p].data)
                    ELSE Assigned(mem[p].data, cur[p])]
    /\ pc' = [pc EXCEPT ![p] =
                 IF cmd[p] = "issue_resolve"
                 THEN (IF mem[p].data.task # NoTask THEN "is_sync" ELSE "done")
                 ELSE (IF mem[p].data.status = "resolved" THEN "done"
                       ELSE "is_update")]
    /\ UNCHANGED <<claimVars, cmd, cur, leaseVars, agent, tasks, sessions,
                   auxVars, callVars, runVars>>

\* issue resolve: sync_task_status_for_issues of the issue's task
\* (list_issues, then update_task)
IssueSyncList(p) ==
    /\ pc[p] = "is_sync"
    /\ IF tasks[mem[p].data.task].exists
       THEN /\ pc' = [pc EXCEPT ![p] = "is_sync_write"]
            /\ mem' = [mem EXCEPT ![p] =
                         [state |-> "whole", data |-> mem[p].data,
                          has_open |-> task_has_open_issues(mem[p].data.task)]]
       ELSE /\ pc' = [pc EXCEPT ![p] = "done"]
            /\ mem' = mem
    /\ UNCHANGED <<claimVars, cmd, cur, leaseVars, agent, tasks, issues, sessions,
                   flock, tmp, torn, hist, callVars, runVars, trips, lateVars>>

IssueSyncWrite(p) ==
    /\ pc[p] = "is_sync_write"
    /\ LET t == mem[p].data.task
       IN tasks' = IF tasks[t].exists
                   THEN [tasks EXCEPT ![t].status =
                           SyncedStatus(tasks[t], mem[p].has_open)]
                   ELSE tasks
    /\ pc' = [pc EXCEPT ![p] = "done"]
    /\ UNCHANGED <<claimVars, cmd, cur, leaseVars, agent, issues, sessions,
                   auxVars, callVars, runVars>>

\* issue assign of an open issue, without --stage: update_task_for_issue
IssueAssignUpdate(p) ==
    /\ pc[p] = "is_update"
    /\ LET t == cur[p]
       IN tasks' = IF tasks[t].exists
                   THEN [tasks EXCEPT ![t] =
                           [@ EXCEPT !.stage = StageForIssue(tasks[t], NoStage,
                                           issue_default_stage(agent,
                                                               mem[p].data.type)),
                                     !.status = "issues"]]
                   ELSE tasks
    /\ pc' = [pc EXCEPT ![p] = "done"]
    /\ UNCHANGED <<claimVars, cmd, cur, leaseVars, agent, issues, sessions,
                   auxVars, callVars, runVars>>

\* =================================================================
\* Queue scheduler (next_eligible_task) and reconcile_running_tasks
\* =================================================================
Schedulable(rec) ==
    rec.exists /\ ~rec.held /\ rec.status \in {"pending", "incomplete", "issues"}

\* a.queue_rank.unwrap_or(i64::MAX) < b.queue_rank.unwrap_or(i64::MAX)
RankLess(a, b) ==
    /\ a.queue_rank # <<>>
    /\ (b.queue_rank = <<>> \/ a.queue_rank[1] < b.queue_rank[1])

\* first added, first served, at every stage
AddedAtOnly(stage, a, b) == a.added_at < b.added_at

\* the comparator of the sort: (queue_rank, added_at) at build, added_at elsewhere
SortsBefore(stage, a, b) ==
    IF stage = "build"
    THEN RankLess(a, b) \/ (~RankLess(b, a) /\ a.added_at < b.added_at)
    ELSE a.added_at < b.added_at

StageCandidates(stage) ==
    {t \in Tasks : Schedulable(tasks[t]) /\ tasks[t].stage = stage}

\* the first element after the (stable) sort: a least candidate; candidates
\* that compare equal come in directory order, which is not determined
FirstOf(stage, cands) ==
    {t \in cands : \A u \in cands : ~SortsBefore(stage, tasks[u], tasks[t])}

RECURSIVE FirstQueueStage(_, _)
FirstQueueStage(qs, k) ==
    IF k > Len(qs) THEN 0
    ELSE IF StageCandidates(qs[k]) # {} THEN k
    ELSE FirstQueueStage(qs, k + 1)

\* the possible results of next_eligible_task, as [task, stage]; {} is None
next_eligible_task(a) ==
    LET qs == queue_stages(a)
        k == FirstQueueStage(qs, 1)
    IN IF k # 0
       THEN {[task |-> t, stage |-> qs[k]] : t \in FirstOf(qs[k], StageCandidates(qs[k]))}
       ELSE LET stranded == {t \in Tasks : /\ tasks[t].exists /\ ~tasks[t].held
                                           /\ tasks[t].stage = "completed"
                                           /\ tasks[t].status = "issues"}
            IN {[task |-> t, stage |-> "build"] : t \in FirstOf("completed", stranded)}

\* the scheduler is asked for the next task (list_tasks, next_eligible_task)
SelectNext(p) ==
    /\ pc[p] = "idle"
    /\ \E e \in next_eligible_task(agent) :
          /\ cur' = [cur EXCEPT ![p] = e.task]
          /\ stageL' = [stageL EXCEPT ![p] = e.stage]
    /\ pc' = [pc EXCEPT ![p] = "picked"]
    /\ UNCHANGED <<claimVars, cmd, leaseVars, storeVars, callVars,
                   loops, limit, sid, child, intr, res>>

\* the selected task is taken up: run_stage marks it Running
TakeSelected(p) ==
    /\ pc[p] = "picked"
    /\ tasks' = [tasks EXCEPT ![cur[p]] = Mutate("mark", @)]
    /\ pc' = [pc EXCEPT ![p] = "idle"]
    /\ UNCHANGED <<claimVars, cmd, cur, leaseVars, agent, auxVars, issues, sessions,
                   callVars, runVars>>

\* ------------------------------------------------------------ cmd_reorder
\* the non-held tasks at build, whatever their status
BuildQueue == {t \in Tasks : tasks[t].exists /\ ~tasks[t].held
                              /\ tasks[t].stage = "build"}

\* the orders of S as sequences
Orders(S) ==
    {f \in [1..Cardinality(S) -> S] : \A i, j \in DOMAIN f : f[i] = f[j] => i = j}

\* the outcomes of the stable sort of S: no element is behind one it sorts
\* before; elements that compare equal come in directory order
SortedOrders(stage, S) ==
    {f \in Orders(S) :
        \A i, j \in DOMAIN f :
            i < j => ~SortsBefore(stage, tasks[f[j]], tasks[f[i]])}

Min(a, b) == IF a < b THEN a ELSE b

\* without the target, then the target inserted at min(position - 1, len)
Reinserted(ord, t, position) ==
    LET others == SelectSeq(ord, LAMBDA x : x # t)
        idx == Min(position - 1, Len(others))
    IN SubSeq(others, 1, idx) \o <<t>> \o SubSeq(others, idx + 1, Len(others))

\* index of x in the sequence (x occurs in it)
IndexOf(seq, x) == CHOOSE k \in DOMAIN seq : seq[k] = x

\* every entry is written, changed or not
RankOutdated(rec, new_rank) == TRUE

\* "if item.queue_rank == Some(new_rank) { continue; }"
RankDiffers(rec, new_rank) == rec.queue_rank # <<new_rank>>

\* the bail! of cmd_reorder that come before its first write
ReorderRefused(t, position) ==
    \/ position = 0
    \/ ~tasks[t].exists
    \/ tasks[t].stage # "build"
    \/ tasks[t].held

\* cmd_reorder: sort, reinsertion, one update_task per changed rank
Reordered(t, position) ==
    \E ord \in SortedOrders("build", BuildQueue) :
       LET ordered == Reinserted(ord, t, position)
           written == {x \in BuildQueue :
                         RankDiffers(tasks[x], IndexOf(ordered, x))}
       IN /\ tasks' = [x \in Tasks |->
                         IF x \in written
                         THEN [tasks[x] EXCEPT !.queue_rank =
                                                  <<IndexOf(ordered, x)>>]
                         ELSE tasks[x]]
          /\ hist' = [x \in Tasks |->
                        IF x \in written THEN Append(hist[x], "rank")
                        ELSE hist[x]]

\* cmd_reorder where it is not refused
Reorder(t, position) ==
    /\ ~ReorderRefused(t, position)
    /\ Reordered(t, position)
    /\ UNCHANGED <<claimVars, procVars, agent, flock, tmp, torn, mem, issues,
                   sessions, callVars, runVars, trips, lateVars>>

\* -----------------------------------------------------------------
\* The same commands as their caller sees them: every call returns,
\* with Ok or with the error, and out holds what it returned.
\* -----------------------------------------------------------------
Outcome(c, t, position, stage, result) ==
    [cmd |-> c, task |-> t, position |-> position, stage |-> stage,
     result |-> result]

\* cmd_hold
HoldCmd(t) ==
    /\ out = IdleOut
    /\ LET refused == ~tasks[t].exists \/ HoldRefused(tasks[t])
       IN /\ tasks' = IF refused THEN tasks ELSE [tasks EXCEPT ![t].held = TRUE]
          /\ out' = Outcome("hold", t, 0, NoStage,
                            IF refused THEN "error" ELSE "ok")
    /\ UNCHANGED <<claimVars, procVars, agent, fileVars, trips, treeVars,
                   pureVars, fnVars, descr, issues, sessions, callVars, runVars>>

\* cmd_reorder
ReorderCmd(t, position) ==
    /\ out = IdleOut
    /\ IF ReorderRefused(t, position)
       THEN /\ out' = Outcome("reorder", t, position, NoStage, "error")
            /\ UNCHANGED <<tasks, hist>>
       ELSE /\ out' = Outcome("reorder", t, position, NoStage, "ok")
            /\ Reordered(t, position)
    /\ UNCHANGED <<claimVars, procVars, agent, flock, tmp, torn, mem, issues,
                   sessions, callVars, runVars, trips, treeVars, pureVars,
                   fnVars, descr>>

\* what cmd_issue_add and cmd_issue_assign return once the issue is saved:
\* the error of validate_issue_stage, Ok, or what update_task_for_issue
\* will return
IssueOutcome(after, t, stage) ==
    IF StageRejected(t, stage) THEN "error"
    ELSE IF after = IdleOp THEN "ok" ELSE "update"

\* cmd_issue_add
IssueAddCmd(i, t, type, stage) ==
    /\ agent = "code"
    /\ op.kind = "idle"
    /\ out = IdleOut
    /\ issues[i].status = "none"
    /\ issues' = [issues EXCEPT ![i] = [status |-> "open", task |-> t, type |-> type]]
    /\ op' = AfterIssueSaved(t, stage, type)
    /\ out' = Outcome("issue_add", t, 0, stage, IssueOutcome(op', t, stage))
    /\ UNCHANGED <<claimVars, procVars, agent, fileVars, trips, treeVars,
                   pureVars, fnVars, descr, tasks, sessions, fin, runVars>>

\* cmd_issue_assign
IssueAssignCmd(i, t, stage) ==
    /\ agent = "code"
    /\ op.kind = "idle"
    /\ out = IdleOut
    /\ issues[i].status # "none"
    /\ issues' = [issues EXCEPT ![i].task = t]
    /\ op' = IF issues[i].status = "resolved" THEN IdleOp
             ELSE AfterIssueSaved(t, stage, issues[i].type)
    /\ out' = Outcome("issue_assign", t, 0, stage,
                      IF issues[i].status = "resolved" THEN "ok"
                      ELSE IssueOutcome(op', t, stage))
    /\ UNCHANGED <<claimVars, procVars, agent, fileVars, trips, treeVars,
                   pureVars, fnVars, descr, tasks, sessions, fin, runVars>>

\* cmd_delete: a task that is not there is reported and is no error
DeleteCmd(t, force) ==
    /\ op.kind = "idle"
    /\ out = IdleOut
    /\ LET result == IF ~tasks[t].exists THEN "ok"
                     ELSE IF DeleteRefused(t, force) THEN "error"
                     ELSE "remove"
       IN /\ out' = [cmd |-> "delete", task |-> t, force |-> force,
                     result |-> result]
          /\ op' = IF result = "remove"
                   THEN [kind |-> "delete", task |-> t,
                         todo |-> OpenIssuesOf(t), listed |-> issues]
                   ELSE op
    /\ UNCHANGED <<claimVars, procVars, agent, fileVars, trips, treeVars,
                   pureVars, fnVars, descr, tasks, issues, sessions, fin, runVars>>

\* the description replaced by nothing when none is supplied
ClearedDescription(old, given) == given

\* "if let Some(description) = description.as_ref()"
StoredDescription(old, given) ==
    IF given # NoDescription THEN given ELSE old

\* cmd_task: a task that exists gets the supplied description and is
\* printed; otherwise create_task_state
TaskCmd(t, hold, description) ==
    /\ out = IdleOut
    /\ IF tasks[t].exists
       THEN /\ descr' = [descr EXCEPT
                            ![t] = StoredDescription(descr[t], description)]
            /\ UNCHANGED tasks
       ELSE /\ tasks' = [tasks EXCEPT
                            ![t] = NewTaskState(initial_stage(agent), hold, now)]
            /\ descr' = [descr EXCEPT ![t] = description]
    /\ out' = [cmd |-> "task", task |-> t, description |-> description,
               hold |-> hold, result |-> "ok"]
    /\ UNCHANGED <<claimVars, procVars, agent, fileVars, trips, treeVars,
                   pureVars, fnVars, issues, sessions, callVars, runVars>>

\* cmd_queue <task>: a task that exists is printed; a task directory
\* without task.json gets its state; anything else is "not found"
QueueCmd(t, dir) ==
    /\ out = IdleOut
    /\ IF tasks[t].exists \/ ~dir
       THEN UNCHANGED <<tasks, descr>>
       ELSE /\ tasks' = [tasks EXCEPT
                            ![t] = NewTaskState(initial_stage(agent), FALSE, now)]
            /\ descr' = [descr EXCEPT ![t] = NoDescription]
    /\ out' = [cmd |-> "queue", task |-> t, description |-> NoDescription,
               hold |-> FALSE,
               result |-> IF tasks[t].exists \/ dir THEN "ok" ELSE "error"]
    /\ UNCHANGED <<claimVars, procVars, agent, fileVars, trips, treeVars,
                   pureVars, fnVars, issues, sessions, callVars, runVars>>

\* the caller has looked at what the command returned
OutAck ==
    /\ out # IdleOut
    /\ op.kind = "idle"
    /\ out' = IdleOut
    /\ UNCHANGED <<claimVars, procVars, agent, fileVars, trips, treeVars,
                   pureVars, fnVars, descr, tasks, issues, sessions, callVars, runVars>>

\* the claim file of the task holds a claim that is not stale
has_active_claim(t, host) ==
    read_claim_ok(claims[t]) /\ ~is_claim_stale(claims[t], host)

\* a session of the task is Running
has_active_session(t) ==
    \E s \in SessionIds : sessions[s].status = "running" /\ sessions[s].task = t

\* reconcile_running_tasks: a Running task nobody works on becomes Incomplete
Reconciled(host) ==
    [t \in Tasks |->
        IF /\ tasks[t].exists
           /\ tasks[t].status = "running"
           /\ tasks[t].stage # "completed"
           /\ ~(has_active_claim(t, host) \/ has_active_session(t))
        THEN [tasks[t] EXCEPT !.status = "incomplete"]
        ELSE tasks[t]]

NoTasksAtAll == \A t \in Tasks : ~tasks[t].exists

\* update_task(|t| t.status = status) on the current task; a missing
\* task.json is an error and leaves the store as it is
WithStatus(t, status) ==
    IF tasks[t].exists THEN [tasks EXCEPT ![t].status = status] ELSE tasks

\* =================================================================
\* run_stage: one stage attempt
\* =================================================================
\* "Preserve Issues status": Running unless the status is Issues
Mark(p) ==
    /\ pc[p] = "mark"
    /\ IF tasks[cur[p]].exists
       THEN /\ tasks' = [tasks EXCEPT ![cur[p]].status =
                            IF @ = "issues" THEN @ ELSE "running"]
            /\ pc' = [pc EXCEPT ![p] = "stage_session"]
       ELSE /\ pc' = [pc EXCEPT ![p] = "exit"]
            /\ UNCHANGED tasks
    /\ UNCHANGED <<claimVars, cmd, cur, leaseVars, agent, auxVars, issues, sessions,
                   callVars, runVars>>

\* new_session_id, create_session, spawn of the agent
StageSession(p) ==
    /\ pc[p] = "stage_session"
    /\ sid' = [sid EXCEPT ![p] = <<now, p>>]
    /\ sessions' = [sessions EXCEPT ![<<now, p>>] =
            [status |-> "running", task |-> cur[p], stage |-> stageL[p],
             next_stage |-> NoStage, pid |-> p, finished_at |-> FALSE]]
    /\ child' = [child EXCEPT ![p] = "running"]
    /\ pc' = [pc EXCEPT ![p] = "poll"]
    /\ UNCHANGED <<claimVars, cmd, cur, leaseVars, agent, auxVars, tasks, issues,
                   callVars, stageL, loops, limit, intr, res>>

\* the process exit is looked at first, then the session, then the flag
TickExitFirst(flag, status, exited) ==
    IF exited THEN "exited"
    ELSE IF status = "finished" THEN "finished"
    ELSE IF flag THEN "interrupted"
    ELSE "sleep"

\* what one tick of the poll loop finds: INTERRUPTED, then the session,
\* then child.try_wait()
TickOutcome(flag, status, exited) ==
    IF flag THEN "interrupted"
    ELSE IF status = "finished" THEN "finished"
    ELSE IF exited THEN "exited"
    ELSE "sleep"

\* one tick of the poll loop that does not sleep; terminate_child leaves
\* the child terminated
Poll(p) ==
    /\ pc[p] = "poll"
    /\ LET found == TickOutcome(intr[p], sessions[sid[p]].status,
                          child[p] = "exited")
       IN /\ found # "sleep"
          /\ IF found = "exited"
             THEN /\ pc' = [pc EXCEPT ![p] = "stage_after"]
                  /\ UNCHANGED <<res, child>>
             ELSE /\ res' = [res EXCEPT ![p] = found]
                  /\ child' = [child EXCEPT ![p] = "terminated"]
                  /\ pc' = [pc EXCEPT ![p] = "stage_ret"]
    /\ UNCHANGED <<claimVars, cmd, cur, leaseVars, storeVars, callVars,
                   stageL, loops, limit, sid, intr>>

\* after the loop: the session is loaded once more
StageAfter(p) ==
    /\ pc[p] = "stage_after"
    /\ IF sessions[sid[p]].status = "finished"
       THEN /\ res' = [res EXCEPT ![p] = "finished"]
            /\ child' = [child EXCEPT ![p] = "none"]
            /\ pc' = [pc EXCEPT ![p] = "stage_ret"]
       ELSE /\ pc' = [pc EXCEPT ![p] = "stage_fail"]
            /\ UNCHANGED <<res, child>>
    /\ UNCHANGED <<claimVars, cmd, cur, leaseVars, storeVars, callVars,
                   stageL, loops, limit, sid, intr>>

\* the session is left as it is
SessionLeft(rec) == rec

\* "session_state.status = SessionStatus::Failed; finished_at = Some(now)"
FailedSession(rec) == [rec EXCEPT !.status = "failed", !.finished_at = TRUE]

\* update_session(status = Failed), NoFinish
StageFail(p) ==
    /\ pc[p] = "stage_fail"
    /\ sessions' = [sessions EXCEPT ![sid[p]] = FailedSession(@)]
    /\ res' = [res EXCEPT ![p] = "nofinish"]
    /\ child' = [child EXCEPT ![p] = "none"]
    /\ pc' = [pc EXCEPT ![p] = "stage_ret"]
    /\ UNCHANGED <<claimVars, cmd, cur, leaseVars, agent, auxVars, tasks, issues,
                   callVars, stageL, loops, limit, sid, intr>>

\* the ctrlc handler stores INTERRUPTED; only the poll loop reads it
Interrupt(p) ==
    /\ pc[p] = "poll"
    /\ ~intr[p]
    /\ intr' = [intr EXCEPT ![p] = TRUE]
    /\ UNCHANGED <<claimVars, procVars, storeVars, callVars,
                   stageL, loops, limit, sid, child, res>>

\* the agent process exits on its own
AgentExit(p) ==
    /\ pc[p] = "poll"
    /\ child[p] = "running"
    /\ child' = [child EXCEPT ![p] = "exited"]
    /\ UNCHANGED <<claimVars, procVars, storeVars, callVars,
                   stageL, loops, limit, sid, intr, res>>

\* the agent of p calls finish for its stage, with METAGENT_SESSION and
\* METAGENT_TASK from its environment
AgentFinish(p, next) ==
    /\ child[p] = "running"
    /\ FinishStart(stageL[p], next, sid[p], cur[p])

KeepGuard(p) ==
    /\ pc[p] = "exit"
    /\ pc' = [pc EXCEPT ![p] = "done"]
    /\ UNCHANGED <<claimVars, cmd, cur, leaseVars, otherVars>>

\* the command returns: its ClaimGuard, if any, is dropped
Return(p) ==
    /\ pc[p] = "exit"
    /\ claims' = DropGuard(p)
    /\ guard' = [guard EXCEPT ![p] = NoTask]
    /\ reclaim' = IF guard[p] = NoTask THEN reclaim ELSE Raced(p, guard[p])
    /\ pc' = [pc EXCEPT ![p] = "done"]
    /\ UNCHANGED <<now, alive, cmd, cur, ret, claimedAt, otherVars>>


\* =================================================================
\* start (cmd_start): the stages from the initial one up to the handoff
\* =================================================================
\* AgentKind::handoff_stage
handoff_stage(a) == IF a = "code" THEN "build" ELSE NoStage

\* task_name = None, stage = initial_stage
StartStart(p) ==
    /\ pc[p] = "idle" /\ cmd[p] = "none"
    /\ cmd' = [cmd EXCEPT ![p] = "start"]
    /\ cur' = [cur EXCEPT ![p] = NoTask]
    /\ stageL' = [stageL EXCEPT ![p] = initial_stage(agent)]
    /\ pc' = [pc EXCEPT ![p] = "start_top"]
    /\ UNCHANGED <<claimVars, leaseVars, storeVars, callVars,
                   loops, limit, sid, child, intr, res>>

\* the head of the loop: a known task that exists is marked Running
\* (a stored Issues is kept), then run_stage
StartTop(p) ==
    /\ pc[p] = "start_top"
    /\ tasks' = IF cur[p] # NoTask /\ tasks[cur[p]].exists
                THEN [tasks EXCEPT ![cur[p]].status =
                        IF @ = "issues" THEN @ ELSE "running"]
                ELSE tasks
    /\ pc' = [pc EXCEPT ![p] = "stage_session"]
    /\ UNCHANGED <<claimVars, cmd, cur, leaseVars, agent, auxVars, issues, sessions,
                   callVars, runVars>>

\* the agent of a start call that has no task yet calls finish --task t
\* for a task it has created
AgentTaskFinish(p, t, next) ==
    /\ child[p] = "running"
    /\ cur[p] = NoTask
    /\ tasks[t].exists
    /\ FinishStart(stageL[p], next, sid[p], t)

\* the agent of a start call creates its task (metagent task <name>)
AgentTaskCreate(p, t) ==
    /\ cmd[p] = "start"
    /\ child[p] = "running"
    /\ cur[p] = NoTask
    /\ TaskCreate(t, FALSE)

\* the match on the StageResult: what Interrupted and NoFinish write
StartResultKept(p) == tasks
StartResultWrite(p) ==
    IF cur[p] = NoTask THEN tasks
    ELSE IF res[p] = "interrupted" THEN WithStatus(cur[p], "incomplete")
    ELSE WithStatus(cur[p], "failed")

StartResult(p) ==
    /\ pc[p] = "stage_ret" /\ cmd[p] = "start"
    /\ IF res[p] = "finished"
       THEN LET session == sessions[sid[p]]
                task_name == IF cur[p] = NoTask THEN session.task ELSE cur[p]
                nstage == IF session.next_stage # NoStage THEN session.next_stage
                          ELSE next_stage(agent, stageL[p])
            IN /\ cur' = [cur EXCEPT ![p] = task_name]
               /\ IF nstage = NoStage \/ nstage = handoff_stage(agent)
                     \/ nstage = "completed"
                  THEN /\ pc' = [pc EXCEPT ![p] = "exit"]
                       /\ UNCHANGED stageL
                  ELSE /\ pc' = [pc EXCEPT ![p] = "start_top"]
                       /\ stageL' = [stageL EXCEPT ![p] = nstage]
               /\ UNCHANGED tasks
       ELSE /\ tasks' = StartResultWrite(p)
            /\ pc' = [pc EXCEPT ![p] = "exit"]
            /\ UNCHANGED <<cur, stageL>>
    /\ UNCHANGED <<claimVars, cmd, leaseVars, agent, auxVars, issues, sessions,
                   callVars, loops, limit, sid, child, intr, res>>

\* =================================================================
\* run <task> (cmd_run)
\* =================================================================
\* existence check, reconcile_running_tasks, then claim_task
RunStart(p, t) ==
    /\ pc[p] = "idle" /\ cmd[p] = "none"
    /\ cmd' = [cmd EXCEPT ![p] = "run"]
    /\ IF tasks[t].exists
       THEN /\ tasks' = Reconciled(HostOf(p))
            /\ cur' = [cur EXCEPT ![p] = t]
            /\ pc' = [pc EXCEPT ![p] = "claim_create"]
       ELSE /\ pc' = [pc EXCEPT ![p] = "done"]
            /\ UNCHANGED <<tasks, cur>>
    /\ UNCHANGED <<claimVars, leaseVars, agent, auxVars, issues, sessions, callVars, runVars>>

\* let Some(_guard) = claim else bail
RunClaimed(p) ==
    /\ pc[p] = "claim_ret" /\ cmd[p] = "run"
    /\ pc' = [pc EXCEPT ![p] = IF ret[p] = "lease" THEN "run_load" ELSE "exit"]
    /\ UNCHANGED <<claimVars, cmd, cur, leaseVars, otherVars>>

\* head of the loop: load_task
RunLoad(p) ==
    /\ pc[p] = "run_load"
    /\ LET rec == tasks[cur[p]]
       IN IF ~rec.exists \/ rec.stage = "completed"
          THEN /\ pc' = [pc EXCEPT ![p] = "exit"]
               /\ UNCHANGED stageL
          ELSE /\ stageL' = [stageL EXCEPT ![p] = rec.stage]
               /\ pc' = [pc EXCEPT ![p] = IF rec.held THEN "unhold" ELSE "mark"]
    /\ UNCHANGED <<claimVars, cmd, cur, leaseVars, storeVars, callVars,
                   loops, limit, sid, child, intr, res>>

\* "Activating held task": update_task(held = false)
Unhold(p) ==
    /\ pc[p] = "unhold"
    /\ IF tasks[cur[p]].exists
       THEN /\ tasks' = [tasks EXCEPT ![cur[p]].held = FALSE]
            /\ pc' = [pc EXCEPT ![p] = "mark"]
       ELSE /\ pc' = [pc EXCEPT ![p] = "exit"]
            /\ UNCHANGED tasks
    /\ UNCHANGED <<claimVars, cmd, cur, leaseVars, agent, auxVars, issues, sessions,
                   callVars, runVars>>

\* Finished: continue; Interrupted and NoFinish: status Incomplete, return
RunResult(p) ==
    /\ pc[p] = "stage_ret" /\ cmd[p] = "run"
    /\ IF res[p] = "finished"
       THEN /\ pc' = [pc EXCEPT ![p] = "run_load"]
            /\ UNCHANGED tasks
       ELSE /\ tasks' = WithStatus(cur[p], "incomplete")
            /\ pc' = [pc EXCEPT ![p] = "exit"]
    /\ UNCHANGED <<claimVars, cmd, cur, leaseVars, agent, auxVars, issues, sessions,
                   callVars, runVars>>

\* =================================================================
\* run-next [task] (cmd_run_next)
\* =================================================================
\* list_tasks, reconcile_running_tasks
RunNextStart(p, t) ==
    /\ pc[p] = "idle" /\ cmd[p] = "none"
    /\ cmd' = [cmd EXCEPT ![p] = IF t = NoTask THEN "run_next" ELSE "run_next_task"]
    /\ IF NoTasksAtAll
       THEN /\ pc' = [pc EXCEPT ![p] = "done"]
            /\ UNCHANGED <<tasks, cur>>
       ELSE /\ tasks' = Reconciled(HostOf(p))
            /\ cur' = [cur EXCEPT ![p] = t]
            /\ pc' = [pc EXCEPT ![p] = IF t = NoTask THEN "rn_pick" ELSE "rn_load"]
    /\ UNCHANGED <<claimVars, leaseVars, agent, auxVars, issues, sessions, callVars, runVars>>

\* with a task name: load_task and the checks on it; no claim is taken
RunNextLoad(p) ==
    /\ pc[p] = "rn_load"
    /\ LET rec == tasks[cur[p]]
       IN IF ~rec.exists \/ rec.stage = "completed" \/ rec.status = "running"
          THEN /\ pc' = [pc EXCEPT ![p] = "exit"]
               /\ UNCHANGED stageL
          ELSE /\ stageL' = [stageL EXCEPT ![p] = rec.stage]
               /\ pc' = [pc EXCEPT ![p] = IF rec.held THEN "unhold" ELSE "mark"]
    /\ UNCHANGED <<claimVars, cmd, cur, leaseVars, storeVars, callVars,
                   loops, limit, sid, child, intr, res>>

\* without a task name: list_tasks, next_eligible_task, then claim_task
RunNextPick(p) ==
    /\ pc[p] = "rn_pick"
    /\ IF next_eligible_task(agent) = {}
       THEN /\ pc' = [pc EXCEPT ![p] = "exit"]
            /\ UNCHANGED <<cur, stageL>>
       ELSE \E e \in next_eligible_task(agent) :
               /\ cur' = [cur EXCEPT ![p] = e.task]
               /\ stageL' = [stageL EXCEPT ![p] = e.stage]
               /\ pc' = [pc EXCEPT ![p] = "claim_create"]
    /\ UNCHANGED <<claimVars, cmd, leaseVars, storeVars, callVars,
                   loops, limit, sid, child, intr, res>>

RunNextClaimed(p) ==
    /\ pc[p] = "claim_ret" /\ cmd[p] = "run_next"
    /\ pc' = [pc EXCEPT ![p] = IF ret[p] = "lease" THEN "mark" ELSE "exit"]
    /\ UNCHANGED <<claimVars, cmd, cur, leaseVars, otherVars>>

\* Finished: nothing; Interrupted: Incomplete; NoFinish: Failed; return
RunNextResult(p) ==
    /\ pc[p] = "stage_ret" /\ cmd[p] \in {"run_next", "run_next_task"}
    /\ tasks' = IF res[p] = "finished" THEN tasks
                ELSE IF res[p] = "interrupted" THEN WithStatus(cur[p], "incomplete")
                ELSE WithStatus(cur[p], "failed")
    /\ pc' = [pc EXCEPT ![p] = "exit"]
    /\ UNCHANGED <<claimVars, cmd, cur, leaseVars, agent, auxVars, issues, sessions,
                   callVars, runVars>>

\* =================================================================
\* run-queue (cmd_run_queue)
\* =================================================================
DefaultLoopLimit == 100

\* list_tasks, reconcile_running_tasks, the locals of the loop
RunQueueStart(p, lim) ==
    /\ pc[p] = "idle" /\ cmd[p] = "none"
    /\ cmd' = [cmd EXCEPT ![p] = "run_queue"]
    /\ IF NoTasksAtAll
       THEN /\ pc' = [pc EXCEPT ![p] = "done"]
            /\ UNCHANGED <<tasks, loops, limit, trips>>
       ELSE /\ tasks' = Reconciled(HostOf(p))
            /\ loops' = [loops EXCEPT ![p] = 0]
            /\ trips' = [trips EXCEPT ![p] = [t \in Tasks |-> 0]]
            /\ limit' = [limit EXCEPT ![p] = IF lim = 0 THEN DefaultLoopLimit ELSE lim]
            /\ pc' = [pc EXCEPT ![p] = "rq_top"]
    /\ UNCHANGED <<claimVars, cur, leaseVars, agent, fileVars, lateVars, issues, sessions, callVars,
                   stageL, sid, child, intr, res>>

\* current_task = None; current_claim = None (the guard is dropped)
RqLetGo(p) ==
    /\ cur' = [cur EXCEPT ![p] = NoTask]
    /\ claims' = DropGuard(p)
    /\ guard' = [guard EXCEPT ![p] = NoTask]
    /\ reclaim' = IF guard[p] = NoTask THEN reclaim ELSE Raced(p, guard[p])

\* head of the loop with a current task: load_task and the checks on it
RqTop(p) ==
    /\ pc[p] = "rq_top" /\ cur[p] # NoTask
    /\ LET rec == tasks[cur[p]]
       IN IF ~rec.exists \/ rec.held \/ rec.stage = "completed"
          THEN /\ RqLetGo(p)
               /\ UNCHANGED <<pc, stageL>>
          ELSE /\ UNCHANGED <<cur, claims, guard, reclaim>>
               /\ IF \A k \in 1..Len(queue_stages(agent)) : queue_stages(agent)[k] # rec.stage
                  THEN /\ pc' = [pc EXCEPT ![p] = "exit"]
                       /\ UNCHANGED stageL
                  ELSE /\ stageL' = [stageL EXCEPT ![p] = rec.stage]
                       /\ pc' = [pc EXCEPT ![p] =
                              IF guard[p] = NoTask THEN "claim_create" ELSE "mark"]
    /\ UNCHANGED <<now, alive, cmd, ret, claimedAt, storeVars, callVars,
                   loops, limit, sid, child, intr, res>>

\* head of the loop without a current task: next_eligible_task, claim_task
RqPick(p) ==
    /\ pc[p] = "rq_top" /\ cur[p] = NoTask
    /\ IF next_eligible_task(agent) = {}
       THEN /\ pc' = [pc EXCEPT ![p] = "exit"]
            /\ UNCHANGED <<cur, stageL>>
       ELSE \E e \in next_eligible_task(agent) :
               /\ cur' = [cur EXCEPT ![p] = e.task]
               /\ stageL' = [stageL EXCEPT ![p] = NoStage]
               /\ pc' = [pc EXCEPT ![p] = "claim_create"]
    /\ UNCHANGED <<claimVars, cmd, leaseVars, storeVars, callVars,
                   loops, limit, sid, child, intr, res>>

\* after claim_task: at the pick (stageL is unset) a refused claim means
\* continue and a lease makes the task current; at the head of the loop a
\* refused claim returns
RqClaimed(p) ==
    /\ pc[p] = "claim_ret" /\ cmd[p] = "run_queue"
    /\ IF stageL[p] = NoStage
       THEN /\ pc' = [pc EXCEPT ![p] = "rq_top"]
            /\ cur' = [cur EXCEPT ![p] = IF ret[p] = "lease" THEN @ ELSE NoTask]
            /\ loops' = [loops EXCEPT ![p] = IF ret[p] = "lease" THEN 0 ELSE @]
       ELSE /\ pc' = [pc EXCEPT ![p] = IF ret[p] = "lease" THEN "mark" ELSE "exit"]
            /\ UNCHANGED <<cur, loops>>
    /\ UNCHANGED <<claimVars, cmd, leaseVars, storeVars, callVars,
                   stageL, limit, sid, child, intr, res>>

\* the guard trips one round trip late
LimitExceeded(n, lim) == n > lim

\* "if review_loops >= loop_limit"
LimitReached(n, lim) == n >= lim

\* Finished after a review attempt: load_task, count a review->build trip
\* Interrupted: Incomplete; NoFinish: Failed; return
RqResult(p) ==
    /\ pc[p] = "stage_ret" /\ cmd[p] = "run_queue"
    /\ IF res[p] = "finished"
       THEN /\ UNCHANGED tasks
            /\ IF stageL[p] = "review"
               THEN IF ~tasks[cur[p]].exists
                    THEN /\ pc' = [pc EXCEPT ![p] = "exit"]
                         /\ UNCHANGED <<loops, trips>>
                    ELSE IF tasks[cur[p]].stage = "build"
                    THEN /\ loops' = [loops EXCEPT ![p] = @ + 1]
                         /\ trips' = [trips EXCEPT ![p][cur[p]] = @ + 1]
                         /\ pc' = [pc EXCEPT ![p] =
                                IF LimitReached(loops[p] + 1, limit[p])
                                THEN "rq_hold" ELSE "rq_top"]
                    ELSE /\ pc' = [pc EXCEPT ![p] = "rq_top"]
                         /\ UNCHANGED <<loops, trips>>
               ELSE /\ pc' = [pc EXCEPT ![p] = "rq_top"]
                    /\ UNCHANGED <<loops, trips>>
       ELSE /\ tasks' = WithStatus(cur[p],
                            IF res[p] = "interrupted" THEN "incomplete" ELSE "failed")
            /\ pc' = [pc EXCEPT ![p] = "exit"]
            /\ UNCHANGED <<loops, trips>>
    /\ UNCHANGED <<claimVars, cmd, cur, leaseVars, agent, fileVars, lateVars, issues, sessions,
                   callVars, stageL, limit, sid, child, intr, res>>

\* the loop guard: update_task(held = true), the task is let go
RqHold(p) ==
    /\ pc[p] = "rq_hold"
    /\ IF tasks[cur[p]].exists
       THEN /\ tasks' = [tasks EXCEPT ![cur[p]].held = TRUE]
            /\ RqLetGo(p)
            /\ loops' = [loops EXCEPT ![p] = 0]
            /\ pc' = [pc EXCEPT ![p] = "rq_top"]
       ELSE /\ pc' = [pc EXCEPT ![p] = "exit"]
            /\ UNCHANGED <<tasks, cur, claims, guard, reclaim, loops>>
    /\ UNCHANGED <<now, alive, cmd, ret, claimedAt, agent, auxVars, issues, sessions,
                   callVars, stageL, limit, sid, child, intr, res>>


\* ------------------------------------------------------- bounds (shutdown)
\* how many descendants the agent's root process may spawn in all
MaxDescendants == 2

\* ------------------------------------------------- the agent's process tree
\* the pid of the spawned root (child.id()); pids are not used twice
Root == 1
Pids == 1 .. (1 + MaxDescendants)
\* the pid that adopts the children of a process that has exited
InitPid == 0
NoPid == -1
Signals == {"SIGINT", "SIGTERM", "SIGKILL"}
\* the signals a process may have chosen to ignore; SIGKILL cannot be
Dispositions == SUBSET {"SIGINT", "SIGTERM"}
\* state: "none" (pid never used), "running", "dying" (a signal that ends
\* it has been delivered, the exit itself is still to come), "gone"
NoProcess == [state |-> "none", ppid |-> NoPid, ignores |-> {}]
\* the records of a process that is about to exit and of one that has
\* exited (its parent and its signal dispositions no longer matter)
Dying(rec) == [state |-> "dying", ppid |-> rec.ppid, ignores |-> {}]
Gone == [state |-> "gone", ppid |-> NoPid, ignores |-> {}]
Live == {q \in Pids : ptab[q].state \in {"running", "dying"}}

\* libc::kill(pid, 0) == 0
pid_alive(q) == q \in Live

\* libc::kill(pid, signal) on every pid of S: a live process that does
\* not ignore the signal is going to exit
Delivered(S, signal) ==
    [q \in Pids |->
        IF q \in S /\ q \in Live /\ signal \notin ptab[q].ignores
        THEN Dying(ptab[q])
        ELSE ptab[q]]

\* collect_descendant_pids: the pids that ps lists below root_pid
RECURSIVE Below(_, _)
Below(S, n) ==
    IF n = 0 THEN S
    ELSE Below(S \cup {q \in Live : ptab[q].ppid \in S}, n - 1)

collect_descendant_pids(root_pid) ==
    Below({root_pid}, Cardinality(Pids)) \ {root_pid}

\* ------------------------------------------------ terminate_child, by step
SIGINT_ATTEMPTS == 3
\* iterations of the 100 ms poll loop within a timeout of 500 ms, of 1 s
ShortWaitPolls == 5
LongWaitPolls == 10
\* the steps of terminate_child in order: SIGINT_ATTEMPTS rounds of SIGINT,
\* one of SIGTERM, one of SIGKILL, and child.kill()
TermPhase == SIGINT_ATTEMPTS + 1
KillPhase == SIGINT_ATTEMPTS + 2
ChildKillPhase == SIGINT_ATTEMPTS + 3
PhaseSignal(n) ==
    IF n <= SIGINT_ATTEMPTS THEN "SIGINT"
    ELSE IF n = TermPhase THEN "SIGTERM" ELSE "SIGKILL"
PhasePolls(n) == IF n <= SIGINT_ATTEMPTS THEN ShortWaitPolls ELSE LongWaitPolls

\* early: the call returned from inside the SIGINT or SIGTERM phase;
\* ever (history): every pid known_descendants has held during the call;
\* status: child.try_wait() has stored the root's exit status in the handle;
\* confirmed: the result of the latest wait_for_process_tree_exit;
\* log (history): the signal of every round sent so far in this call;
\* round (history): the pids of the latest round in the order signalled
IdleTc == [pc |-> "idle", phase |-> 0, polls |-> 0,
           known_descendants |-> {}, root_exited |-> FALSE,
           early |-> FALSE, ever |-> {},
           status |-> FALSE, confirmed |-> FALSE,
           log |-> <<>>, round |-> <<>>]

\* Command::spawn of the agent in run_stage
SpawnRoot(ig) ==
    /\ tc.pc = "idle"
    /\ ptab[Root].state = "none"
    /\ ptab' = [ptab EXCEPT ![Root] =
                  [state |-> "running", ppid |-> InitPid, ignores |-> ig]]
    /\ UNCHANGED <<tc, shutdownRest>>

\* a process of the tree starts a child of its own; the kernel hands out
\* any unused pid (the pid counter wraps around)
Spawn(parent, q, ig) ==
    /\ parent \in Live
    /\ q # Root
    /\ ptab[q].state = "none"
    /\ ptab' = [ptab EXCEPT ![q] =
                  [state |-> "running", ppid |-> parent, ignores |-> ig]]
    /\ UNCHANGED <<tc, shutdownRest>>

\* a process that got a signal it does not ignore exits; its children are
\* adopted by init
Exit(q) ==
    /\ ptab[q].state = "dying"
    /\ ptab' = [r \in Pids |->
                  IF r = q THEN Gone
                  ELSE IF ptab[r].ppid = q
                       THEN [ptab[r] EXCEPT !.ppid = InitPid]
                       ELSE ptab[r]]
    /\ UNCHANGED <<tc, shutdownRest>>

\* run_stage calls terminate_child(&mut child)
TerminateChild ==
    /\ tc.pc = "idle"
    /\ ptab[Root].state # "none"
    /\ tc' = [IdleTc EXCEPT !.pc = "signal", !.phase = 1]
    /\ UNCHANGED <<ptab, shutdownRest>>

\* known_descendants.extend(found)
Rediscovered(known, found) == found
Extended(known, found) == known \cup found

\* descendants.sort_unstable(); descendants.reverse(): the pids of S from
\* the highest to the lowest
RECURSIVE SortedReversed(_)
SortedReversed(S) ==
    IF S = {} THEN <<>>
    ELSE LET highest == CHOOSE q \in S : \A r \in S : r <= q
         IN <<highest>> \o SortedReversed(S \ {highest})

\* signal_process_tree(child, signal, known_descendants), then the entry
\* into wait_for_process_tree_exit
signal_process_tree ==
    /\ tc.pc = "signal"
    /\ tc.phase <= KillPhase
    /\ LET known == Extended(tc.known_descendants,
                             collect_descendant_pids(Root))
           descendants == {q \in known : pid_alive(q)}
       IN /\ ptab' = Delivered(descendants \cup {Root}, PhaseSignal(tc.phase))
          /\ tc' = [tc EXCEPT !.pc = "wait",
                              !.known_descendants = known,
                              !.ever = @ \cup known,
                              !.polls = PhasePolls(tc.phase),
                              !.root_exited = FALSE,
                              !.log = Append(@, PhaseSignal(tc.phase)),
                              !.round = SortedReversed(descendants)
                                        \o <<Root>>]
    /\ UNCHANGED shutdownRest

\* child.kill(), then the entry into the last wait; Child::kill sends
\* SIGKILL unless the handle already holds the exit status
ChildKill ==
    /\ tc.pc = "signal"
    /\ tc.phase = ChildKillPhase
    /\ ptab' = IF tc.status THEN ptab ELSE Delivered({Root}, "SIGKILL")
    /\ tc' = [tc EXCEPT !.pc = "wait",
                        !.polls = PhasePolls(tc.phase),
                        !.root_exited = FALSE,
                        !.log = IF tc.status THEN @ ELSE Append(@, "SIGKILL"),
                        !.round = IF tc.status THEN <<>> ELSE <<Root>>]
    /\ UNCHANGED shutdownRest

\* what terminate_child does with the result of a wait: return on true
\* in the SIGINT and SIGTERM phases, go on otherwise; return after the
\* wait that follows child.kill()
AfterWaitGoesOn(rec, result) ==
    IF rec.phase = ChildKillPhase
    THEN [rec EXCEPT !.pc = "returned", !.confirmed = result]
    ELSE [rec EXCEPT !.pc = "signal", !.phase = @ + 1, !.confirmed = result]
AfterWait(rec, result) ==
    IF result /\ rec.phase <= TermPhase
    THEN [rec EXCEPT !.pc = "returned", !.early = TRUE, !.confirmed = TRUE]
    ELSE IF rec.phase = ChildKillPhase
         THEN [rec EXCEPT !.pc = "returned", !.confirmed = result]
         ELSE [rec EXCEPT !.pc = "signal", !.phase = @ + 1,
                          !.confirmed = result]

\* child.try_wait() has seen the root's exit status
RootReaped == ptab[Root].state = "gone"

\* one iteration of the loop of wait_for_process_tree_exit
wait_for_process_tree_exit ==
    /\ tc.pc = "wait"
    /\ IF tc.polls = 0
       THEN tc' = AfterWait(tc, FALSE)
       ELSE LET exited == tc.root_exited \/ RootReaped
                known == {q \in tc.known_descendants : pid_alive(q)}
                seen == [tc EXCEPT !.root_exited = exited,
                                   !.known_descendants = known,
                                   !.status = @ \/ RootReaped]
            IN IF exited /\ known = {}
               THEN tc' = AfterWait(seen, TRUE)
               ELSE tc' = [seen EXCEPT !.polls = @ - 1]
    /\ UNCHANGED <<ptab, shutdownRest>>


\* ---------------------------------------------- model selection (run_stage)
Models == {"claude", "codex"}
\* resolve_model_choice: a model named by --model or the environment is
\* explicit; without one the choice is Claude, not explicit
ModelChoices ==
    { [model |-> m, explicit |-> TRUE, force_model |-> f] :
        m \in Models, f \in BOOLEAN }
    \cup { [model |-> "claude", explicit |-> FALSE, force_model |-> f] :
             f \in BOOLEAN }

\* AgentKind::model_for_stage (<<>> is None)
model_for_stage(a, stage) ==
    IF a = "code" /\ stage \in {"spec", "spec-review", "spec-review-issues",
                                "planning", "build", "review"}
    THEN <<"codex">> ELSE <<>>

\* run_stage: effective_status
StoredStatus(task_status, has_open_issues) == task_status
effective_status(task_status, has_open_issues) ==
    IF has_open_issues THEN "issues" ELSE task_status

resolve_model(choice, a, stage, task_status) ==
    IF task_status = "issues" /\ ~(choice.force_model /\ choice.explicit)
    THEN "codex"
    ELSE IF choice.explicit THEN choice.model
    ELSE IF model_for_stage(a, stage) # <<>> THEN model_for_stage(a, stage)[1]
    ELSE choice.model

IdleSel == [pc |-> "idle"]

\* run_stage: load_task(..).ok().map(|task| task.status)
\* ("-" is None: no task.json)
SelLoadStatus(choice, t, stage) ==
    /\ sel.pc = "idle"
    /\ sel' = [pc |-> "status", choice |-> choice, task |-> t, stage |-> stage,
               task_status |-> tasks[t].status]
    /\ UNCHANGED <<claimVars, procVars, agent, tasks, issues, sessions, callVars,
                   runVars, fileVars, trips, treeVars, outVars,
                   fnVars>>

\* run_stage: task_has_open_issues
SelOpenIssues ==
    /\ sel.pc = "status"
    /\ sel' = [sel EXCEPT !.pc = "issues",
                          !.task_status =
                              effective_status(@, task_has_open_issues(sel.task))]
    /\ UNCHANGED <<claimVars, procVars, agent, tasks, issues, sessions, callVars,
                   runVars, fileVars, trips, treeVars, outVars,
                   fnVars>>

\* run_stage: resolve_model
SelResolve ==
    /\ sel.pc = "issues"
    /\ sel' = [pc |-> "done", choice |-> sel.choice, task |-> sel.task,
               stage |-> sel.stage,
               model |-> resolve_model(sel.choice, agent, sel.stage,
                                       sel.task_status)]
    /\ UNCHANGED <<claimVars, procVars, agent, tasks, issues, sessions, callVars,
                   runVars, fileVars, trips, treeVars, outVars,
                   fnVars>>

\* the next stage attempt
SelReturn ==
    /\ sel.pc = "done"
    /\ sel' = IdleSel
    /\ UNCHANGED <<claimVars, procVars, agent, tasks, issues, sessions, callVars,
                   runVars, fileVars, trips, treeVars, outVars,
                   fnVars>>

\* ------------------------------------------------------- initial states
\* no claim files, every process alive and idle
\* the processes and the calls at rest
InitCore ==
    /\ now = 0
    /\ pc = [p \in Procs |-> "idle"]
    /\ cmd = [p \in Procs |-> "none"]
    /\ cur = [p \in Procs |-> NoTask]
    /\ guard = [p \in Procs |-> NoTask]
    /\ ret = [p \in Procs |-> "pending"]
    /\ claimedAt = [p \in Procs |-> 0]
    /\ reclaim = [p \in Procs |-> "no"]
    /\ op = IdleOp
    /\ fin = IdleFin
    /\ stageL = [p \in Procs |-> NoStage]
    /\ loops = [p \in Procs |-> 0]
    /\ limit = [p \in Procs |-> 0]
    /\ sid = [p \in Procs |-> NoSid]
    /\ child = [p \in Procs |-> "none"]
    /\ intr = [p \in Procs |-> FALSE]
    /\ res = [p \in Procs |-> "none"]
    /\ flock = [t \in Tasks |-> 0]
    /\ tmp = [t \in Tasks |-> NoData]
    /\ torn = {}
    /\ mem = [p \in Procs |-> NoData]
    /\ hist = [t \in Tasks |-> <<>>]
    /\ trips = [p \in Procs |-> [t \in Tasks |-> 0]]
    /\ ptab = [q \in Pids |-> NoProcess]
    /\ tc = IdleTc
    /\ sel = IdleSel
    /\ out = IdleOut
    /\ descr = [t \in Tasks |-> NoDescription]

InitProcs ==
    /\ InitCore
    /\ walk = NoWalk
    /\ doc = NoDoc

\* an empty store
InitStore ==
    /\ tasks = [t \in Tasks |-> NoRec]
    /\ issues = [i \in IssueIds |-> NoIssue]
    /\ sessions = [s \in SessionIds |-> NoSession]

\* ------------------------------------------------------------ SpecClaim
InitClaim ==
    /\ InitProcs
    /\ claims = [t \in Tasks |-> NoFile]
    /\ alive = Procs
    /\ agent = "code"
    /\ InitStore

NextClaim ==
    \/ \E p \in Procs, t \in ClaimTasks : StartClaim(p, t)
    \/ \E p \in Procs : ClaimCreate(p)
    \/ \E p \in Procs : ClaimWrite(p)
    \/ \E p \in Procs : ClaimRead(p)
    \/ \E p \in Procs : ClaimRemove(p)
    \/ \E p \in Procs : ClaimRetry(p)
    \/ \E p \in Procs : ClaimRewrite(p)
    \/ \E p \in Procs : ReleaseClaim(p)
    \/ \E p \in Procs : Crash(p)
    \/ Tick

SpecClaim == InitClaim /\ [][NextClaim]_vars

\* ------------------------------------------------------------- SpecSkew
\* the claim file of the one task was written with a clock that is ahead
\* of the clock the processes read (another host's clock, or a clock that
\* has been set back since): started_at lies after now
SkewStarts == {n * TickStep : n \in 1 .. (MaxNow \div TickStep)}

InitSkew ==
    /\ InitProcs
    /\ \E q \in Procs, at \in SkewStarts :
          claims = [t \in Tasks |->
                      IF t \in ClaimTasks THEN ClaimState(q, t, at)
                      ELSE NoFile]
    /\ alive = Procs
    /\ agent = "code"
    /\ InitStore

SpecSkew == InitSkew /\ [][NextClaim]_vars

\* -------------------------------------------------------------- SpecRun
\* two orchestrator processes on one host, each running one of run,
\* run-next <task>, run-next and run-queue, over the one task t1.  No time
\* passes and no process dies, so no claim is stale and the reclaim steps
\* of claim_task (remove, retry, rewrite) cannot occur.
Workers == {1, 2}
TheTask == "t1"
TheIssue == "i1"

\* the --loop-limit values passed to run-queue
LoopLimits == 1..MaxLoopLimit

\* the store of the code agent after `task t`, `set-stage t build`
BuildTask == NewTaskState("build", FALSE, 0)

\* an open issue of type build for task t, and the status it gives the task
OpenIssue(t) == [status |-> "open", task |-> t, type |-> "build"]

\* task t1 at build, with or without an open issue (issue add --task t1)
InitRun ==
    /\ InitProcs
    /\ alive = Procs
    /\ agent = "code"
    /\ claims = [t \in Tasks |-> NoFile]
    /\ \E open \in BOOLEAN :
          /\ tasks = [t \in Tasks |->
                        IF t # TheTask THEN NoRec
                        ELSE [BuildTask EXCEPT
                                !.status = IF open THEN "issues" ELSE "pending"]]
          /\ issues = [i \in IssueIds |->
                        IF i = TheIssue /\ open THEN OpenIssue(TheTask) ELSE NoIssue]
    /\ sessions = [s \in SessionIds |-> NoSession]

NextRun ==
    \/ \E p \in Workers : RunStart(p, TheTask)
    \/ \E p \in Workers, t \in {TheTask, NoTask} : RunNextStart(p, t)
    \/ \E p \in Workers, lim \in LoopLimits : RunQueueStart(p, lim)
    \/ \E p \in Workers : ClaimCreate(p)
    \/ \E p \in Workers : ClaimWrite(p)
    \/ \E p \in Workers : ClaimRead(p)
    \/ \E p \in Workers : RunClaimed(p)
    \/ \E p \in Workers : RunLoad(p)
    \/ \E p \in Workers : Unhold(p)
    \/ \E p \in Workers : RunResult(p)
    \/ \E p \in Workers : RunNextLoad(p)
    \/ \E p \in Workers : RunNextPick(p)
    \/ \E p \in Workers : RunNextClaimed(p)
    \/ \E p \in Workers : RunNextResult(p)
    \/ \E p \in Workers : RqTop(p)
    \/ \E p \in Workers : RqPick(p)
    \/ \E p \in Workers : RqClaimed(p)
    \/ \E p \in Workers : RqResult(p)
    \/ \E p \in Workers : RqHold(p)
    \/ \E p \in Workers : Mark(p)
    \/ \E p \in Workers : StageSession(p)
    \/ \E p \in Workers : Poll(p)
    \/ \E p \in Workers : StageAfter(p)
    \/ \E p \in Workers : StageFail(p)
    \/ \E p \in Workers : Interrupt(p)
    \/ \E p \in Workers : AgentExit(p)
    \/ \E p \in Workers : AgentFinish(p, NoStage)
    \/ FinishCheck
    \/ FinishWrite
    \/ \E p \in Workers : Return(p)

SpecRun == InitRun /\ [][NextRun]_vars

\* ------------------------------------------------------------- SpecWork
\* one orchestrator process running one of run, run-next <task>, run-next
\* and run-queue over two tasks, while the operator holds and deletes
\* tasks and the agent finishes, exits or is interrupted

\* the pid a stale claim file names: no process has it
DeadPid == 999999

\* a claim file left behind by a process that was killed
OrphanClaim(t) ==
    [kind |-> "claim", task |-> t, pid |-> DeadPid, host |-> "h1",
     started_at |-> 0, ttl_seconds |-> TTL]

\* tasks t1 and t2 at build, t1 with an open issue, and a claim file for
\* t2 that a killed process left behind
InitWork ==
    /\ InitProcs
    /\ alive = Procs
    /\ agent = "code"
    /\ claims = [t \in Tasks |-> IF t = "t2" THEN OrphanClaim(t) ELSE NoFile]
    /\ tasks = [t \in Tasks |->
                  IF t \in WorkTasks
                  THEN [BuildTask EXCEPT
                          !.status = IF t = TheTask THEN "issues" ELSE "pending"]
                  ELSE NoRec]
    /\ issues = [i \in IssueIds |->
                  IF i = TheIssue THEN OpenIssue(TheTask) ELSE NoIssue]
    /\ sessions = [s \in SessionIds |-> NoSession]

NextWork ==
    \/ \E t \in WorkTasks : RunStart(1, t)
    \/ \E t \in WorkTasks \cup {NoTask} : RunNextStart(1, t)
    \/ \E lim \in LoopLimits : RunQueueStart(1, lim)
    \/ ClaimCreate(1)
    \/ ClaimWrite(1)
    \/ ClaimRead(1)
    \/ ClaimRemove(1)
    \/ ClaimRetry(1)
    \/ ClaimRewrite(1)
    \/ RunClaimed(1)
    \/ RunLoad(1)
    \/ Unhold(1)
    \/ RunResult(1)
    \/ RunNextLoad(1)
    \/ RunNextPick(1)
    \/ RunNextClaimed(1)
    \/ RunNextResult(1)
    \/ RqTop(1)
    \/ RqPick(1)
    \/ RqClaimed(1)
    \/ RqResult(1)
    \/ RqHold(1)
    \/ Mark(1)
    \/ StageSession(1)
    \/ Poll(1)
    \/ StageAfter(1)
    \/ StageFail(1)
    \/ Interrupt(1)
    \/ AgentExit(1)
    \/ AgentFinish(1, NoStage)
    \/ FinishCheck
    \/ FinishWrite
    \/ Return(1)
    \/ \E t \in WorkTasks : Hold(t)
    \/ \E t \in WorkTasks : DeleteStart(t, TRUE)
    \/ \E i \in IssueIds : DeleteUnassign(i)
    \/ DeleteRemove

SpecWork == InitWork /\ [][NextWork]_vars

\* --------------------------------------------------------- SpecStranded
\* as SpecWork, but t1 is parked at 'completed' with status Issues and an
\* open issue (what set-stage t1 completed leaves behind while the issue
\* is open), and t2 has an open issue as well
InitStranded ==
    /\ InitProcs
    /\ alive = Procs
    /\ agent = "code"
    /\ claims = [t \in Tasks |-> IF t = "t2" THEN OrphanClaim(t) ELSE NoFile]
    /\ tasks = [t \in Tasks |->
                  IF t = TheTask
                  THEN [BuildTask EXCEPT !.stage = "completed", !.status = "issues"]
                  ELSE IF t \in WorkTasks THEN [BuildTask EXCEPT !.status = "issues"]
                  ELSE NoRec]
    /\ issues = [i \in IssueIds |->
                  IF i = TheIssue THEN OpenIssue(TheTask) ELSE OpenIssue("t2")]
    /\ sessions = [s \in SessionIds |-> NoSession]

SpecStranded == InitStranded /\ [][NextWork]_vars

\* ------------------------------------------------------------- SpecLoop
\* one run-queue call, with --loop-limit 0 or one of LoopLimits, over task
\* t1 whose open issue sends every finished review back to build, while
\* the operator may activate the task again after the loop guard held it
InitLoop ==
    /\ InitProcs
    /\ alive = Procs
    /\ agent = "code"
    /\ claims = [t \in Tasks |-> NoFile]
    /\ tasks = [t \in Tasks |->
                  IF t = TheTask THEN [BuildTask EXCEPT !.status = "issues"]
                  ELSE NoRec]
    /\ issues = [i \in IssueIds |->
                  IF i = TheIssue THEN OpenIssue(TheTask) ELSE NoIssue]
    /\ sessions = [s \in SessionIds |-> NoSession]

\* the operator activates a task the loop guard has held; the number of
\* activations within one run-queue call is capped by the guard on trips
Reactivate(t) ==
    /\ tasks[t].held
    /\ trips[1][t] <= limit[1]
    /\ Activate(t)

NextLoop ==
    \/ \E lim \in {0} \cup LoopLimits : RunQueueStart(1, lim)
    \/ ClaimCreate(1)
    \/ ClaimWrite(1)
    \/ RqTop(1)
    \/ RqPick(1)
    \/ RqClaimed(1)
    \/ RqResult(1)
    \/ RqHold(1)
    \/ Mark(1)
    \/ StageSession(1)
    \/ Poll(1)
    \/ AgentFinish(1, NoStage)
    \/ FinishCheck
    \/ FinishWrite
    \/ Return(1)
    \/ Reactivate(TheTask)
    \/ SyncList
    \/ SyncWrite

SpecLoop == InitLoop /\ [][NextLoop]_vars


\* ---------------------------------------------------------- SpecShutdown
\* one agent process tree and one call of terminate_child
InitShutdown ==
    /\ InitProcs
    /\ InitStore
    /\ alive = Procs
    /\ agent = "code"
    /\ claims = [t \in Tasks |-> NoFile]

NextShutdown ==
    \/ \E ig \in Dispositions : SpawnRoot(ig)
    \/ \E parent \in Pids, q \in Pids, ig \in Dispositions :
          Spawn(parent, q, ig)
    \/ \E q \in Pids : Exit(q)
    \/ TerminateChild
    \/ signal_process_tree
    \/ ChildKill
    \/ wait_for_process_tree_exit

SpecShutdown == InitShutdown /\ [][NextShutdown]_vars

\* terminate_child is straight-line code around loops with timeouts, so
\* its next step is always taken; a process that got a signal it does not
\* ignore exits in the end
TerminateStep ==
    signal_process_tree \/ ChildKill \/ wait_for_process_tree_exit

SpecShutdownFair ==
    /\ SpecShutdown
    /\ WF_vars(TerminateStep)
    /\ \A q \in Pids : WF_vars(Exit(q))


\* ------------------------------------------------------------- SpecModel
\* the model selection of a stage attempt, for either agent kind, over a
\* task of any status and stage with its issue absent, open or resolved
TaskStatuses == {"pending", "running", "incomplete", "failed", "completed",
                 "issues"}

InitModel ==
    /\ InitProcs
    /\ alive = Procs
    /\ agent \in {"code", "writer"}
    /\ claims = [t \in Tasks |-> NoFile]
    /\ \E st \in TaskStatuses, sg \in stages(agent) :
          tasks = [t \in Tasks |->
                     IF t = TheTask
                     THEN [NewTaskState(sg, FALSE, 0) EXCEPT !.status = st]
                     ELSE NoRec]
    /\ \E is \in {"none", "open", "resolved"} :
          issues = [i \in IssueIds |->
                      IF i = TheIssue /\ is # "none"
                      THEN [OpenIssue(TheTask) EXCEPT !.status = is]
                      ELSE NoIssue]
    /\ sessions = [s \in SessionIds |-> NoSession]

NextModel ==
    \/ \E choice \in ModelChoices, t \in WorkTasks :
          SelLoadStatus(choice, t, tasks[TheTask].stage)
    \/ SelOpenIssues
    \/ SelResolve
    \/ SelReturn

SpecModel == InitModel /\ [][NextModel]_vars


\* ----------------------------------------------------------- SpecAttempt
\* one orchestrator process running one of run, run-next, run-next <task>,
\* run-queue and start, whose agent calls finish, exits without it or is
\* interrupted; the agent of start creates the task it then names
NextAttempt ==
    \/ RunStart(1, TheTask)
    \/ \E t \in {TheTask, NoTask} : RunNextStart(1, t)
    \/ \E lim \in LoopLimits : RunQueueStart(1, lim)
    \/ StartStart(1)
    \/ StartTop(1)
    \/ StartResult(1)
    \/ ClaimCreate(1)
    \/ ClaimWrite(1)
    \/ RunClaimed(1)
    \/ RunLoad(1)
    \/ RunResult(1)
    \/ RunNextLoad(1)
    \/ RunNextPick(1)
    \/ RunNextClaimed(1)
    \/ RunNextResult(1)
    \/ RqTop(1)
    \/ RqPick(1)
    \/ RqClaimed(1)
    \/ RqResult(1)
    \/ RqHold(1)
    \/ Mark(1)
    \/ StageSession(1)
    \/ Poll(1)
    \/ StageAfter(1)
    \/ StageFail(1)
    \/ Interrupt(1)
    \/ AgentExit(1)
    \/ AgentFinish(1, NoStage)
    \/ AgentTaskCreate(1, "t2")
    \/ AgentTaskFinish(1, "t2", NoStage)
    \/ FinishCheck
    \/ FinishWrite
    \/ Return(1)

SpecAttempt == InitRun /\ [][NextAttempt]_vars

\* ------------------------------------------------------------- SpecTask
\* one task under the operator's commands (task, set-stage, hold,
\* activate, issue add/assign/resolve), finish calls and one
\* run-next <task>, for either agent kind; the command-line values used
StageArgs == {"build", "completed", "edit", "task"}
FinishStageArgs == {"review", "task", "edit"}
NextArgs == {NoStage, "completed", "edit"}
IssueStageArgs == {NoStage, "build", "completed"}

\* a fresh store of either agent kind
InitTask ==
    /\ InitProcs
    /\ alive = Procs
    /\ agent \in {"code", "writer"}
    /\ claims = [t \in Tasks |-> NoFile]
    /\ InitStore

NextTask ==
    \/ \E hold \in BOOLEAN : TaskCreate(TheTask, hold)
    \/ \E stage \in StageArgs : SetStageStart(TheTask, stage)
    \/ SetStageWrite
    \/ Hold(TheTask)
    \/ Activate(TheTask)
    \/ SyncList
    \/ SyncWrite
    \/ \E t \in {TheTask, NoTask}, type \in IssueTypes, stage \in IssueStageArgs :
          IssueAdd(TheIssue, t, type, stage)
    \/ \E stage \in IssueStageArgs : IssueAssign(TheIssue, TheTask, stage)
    \/ IssueUpdate
    \/ IssueResolve(TheIssue)
    \/ \E stage \in FinishStageArgs, next \in NextArgs, s \in SessionIds :
          FinishStart(stage, next, s, TheTask)
    \/ FinishCheck
    \/ FinishWrite
    \/ RunNextStart(1, TheTask)
    \/ RunNextLoad(1)
    \/ Unhold(1)
    \/ Mark(1)
    \/ StageSession(1)
    \/ Poll(1)
    \/ StageAfter(1)
    \/ StageFail(1)
    \/ Interrupt(1)
    \/ AgentExit(1)
    \/ RunNextResult(1)
    \/ Return(1)

SpecTask == InitTask /\ [][NextTask]_vars

\* ----------------------------------------------------------- SpecFinish
\* finish calls with any stage name of either agent kind, 'task' and an
\* unknown name as stage and as --next, on the Running session of a task
\* at its first stage, with or without an open issue
FinishWords ==
    stages("code") \cup stages("writer") \cup {"task", "bogus"}

TheSession == <<0, 1>>

InitFinish ==
    /\ InitProcs
    /\ alive = Procs
    /\ agent \in {"code", "writer"}
    /\ claims = [t \in Tasks |-> NoFile]
    /\ tasks = [t \in Tasks |->
                  IF t = TheTask
                  THEN [NewTaskState(initial_stage(agent), FALSE, 0)
                          EXCEPT !.status = "running"]
                  ELSE NoRec]
    /\ \E has_open \in BOOLEAN :
          issues = [i \in IssueIds |->
                      IF has_open /\ i = TheIssue /\ agent = "code"
                      THEN OpenIssue(TheTask) ELSE NoIssue]
    /\ sessions = [s \in SessionIds |->
                     IF s = TheSession
                     THEN [status |-> "running", task |-> TheTask,
                           stage |-> initial_stage(agent),
                           next_stage |-> NoStage, pid |-> 1,
                           finished_at |-> FALSE]
                     ELSE NoSession]

NextFinish ==
    \/ \E stage \in FinishWords, next \in FinishWords \cup {NoStage},
          t \in {TheTask, NoTask} :
          FinishStart(stage, next, TheSession, t)
    \/ \E stage \in FinishWords, next \in FinishWords \cup {NoStage} :
          FinishReject(stage, next)
    \/ FinishAck
    \/ FinishCheck
    \/ FinishWrite

SpecFinish == InitFinish /\ [][NextFinish]_vars

\* ------------------------------------------------------------- SpecLock
\* two processes updating the record of one task, each with any of the
\* mutators and up to MaxUpdates times in all, while a third one loads it
MaxUpdates == 3

InitLock ==
    /\ InitProcs
    /\ alive = Procs
    /\ agent = "code"
    /\ claims = [t \in Tasks |-> NoFile]
    /\ tasks = [t \in Tasks |-> IF t = TheTask THEN BuildTask ELSE NoRec]
    /\ issues = [i \in IssueIds |-> NoIssue]
    /\ sessions = [s \in SessionIds |-> NoSession]

NextLock ==
    \/ \E p \in Workers, m \in Mutators :
          /\ Len(hist[TheTask])
               + Cardinality({q \in Workers : pc[q] \notin {"idle", "done"}})
               < MaxUpdates
          /\ UpdateStart(p, TheTask, m)
    \/ \E p \in Workers : LockExclusive(p)
    \/ \E p \in Workers : UpdateLoad(p)
    \/ \E p \in Workers : WriteTmpBegin(p)
    \/ \E p \in Workers : WriteTmpEnd(p)
    \/ \E p \in Workers : RenameTmp(p)
    \/ \E p \in Workers : Unlock(p)
    \/ \E p \in Procs : NextCommand(p)
    \/ LoadTask(3, TheTask)

SpecLock == InitLock /\ [][NextLock]_vars

\* ------------------------------------------------------------ SpecIssue
\* two processes, each running one issue resolve or issue assign on the
\* same open issue of task t1 (or of no task), with t2 as the other task
InitIssue ==
    /\ InitProcs
    /\ alive = Procs
    /\ agent = "code"
    /\ claims = [t \in Tasks |-> NoFile]
    /\ \E owner \in {TheTask, NoTask}, stage \in {"build", "completed"} :
          /\ tasks = [t \in Tasks |->
                        IF t \notin WorkTasks THEN NoRec
                        ELSE IF t = owner
                        THEN [BuildTask EXCEPT !.status = "issues"]
                        ELSE IF stage = "completed"
                        THEN [BuildTask EXCEPT !.stage = "completed",
                                               !.status = "completed"]
                        ELSE BuildTask]
          /\ issues = [i \in IssueIds |->
                         IF i = TheIssue THEN OpenIssue(owner) ELSE NoIssue]
    /\ sessions = [s \in SessionIds |-> NoSession]

NextIssue ==
    \/ \E p \in Workers : IssueCmdStart(p, "issue_resolve", NoTask)
    \/ \E p \in Workers, t \in WorkTasks : IssueCmdStart(p, "issue_assign", t)
    \/ \E p \in Workers : IssueLoad(p, TheIssue)
    \/ \E p \in Workers : IssueSave(p, TheIssue)
    \/ \E p \in Workers : IssueSyncList(p)
    \/ \E p \in Workers : IssueSyncWrite(p)
    \/ \E p \in Workers : IssueAssignUpdate(p)

SpecIssue == InitIssue /\ [][NextIssue]_vars

\* ------------------------------------------------------------ SpecQueue
\* the scheduler over every list of up to three tasks whose records are
\* drawn from the shapes below, directly or after one reorder
MaxRank == 2
MaxAddedAt == 1
MaxPosition == 3

\* stage, status and held flag of the task records drawn
QueueShapes ==
    {<<"build", "pending", FALSE>>, <<"build", "pending", TRUE>>,
     <<"build", "issues", FALSE>>, <<"build", "failed", FALSE>>,
     <<"spec-review-issues", "pending", FALSE>>,
     <<"review", "incomplete", FALSE>>,
     <<"completed", "issues", FALSE>>}

QueueRanks == {<<>>} \cup {<<r>> : r \in 1..MaxRank}

QueueRecs(times) ==
    {[exists |-> TRUE, stage |-> sh[1], status |-> sh[2], held |-> sh[3],
      last_session |-> NoSid, queue_rank |-> r, added_at |-> at] :
        sh \in QueueShapes, r \in QueueRanks, at \in times}

InitQueue ==
    /\ InitProcs
    /\ alive = Procs
    /\ agent = "code"
    /\ claims = [t \in Tasks |-> NoFile]
    /\ \E a \in QueueRecs({0}), b \in QueueRecs(0..MaxAddedAt),
          c \in QueueRecs({MaxAddedAt}) \cup {NoRec} :
          /\ a.stage # "build" => a.queue_rank = <<>>
          /\ b.stage # "build" => b.queue_rank = <<>>
          /\ c.stage # "build" => c.queue_rank = <<>>
          /\ tasks = [t \in Tasks |->
                        IF t = "t1" THEN a ELSE IF t = "t2" THEN b ELSE c]
    /\ issues = [i \in IssueIds |-> NoIssue]
    /\ sessions = [s \in SessionIds |-> NoSession]

NextQueue ==
    \/ SelectNext(1)
    \/ TakeSelected(1)
    \/ \E t \in Tasks, position \in 1..MaxPosition :
          /\ pc[1] = "idle"
          /\ cur[1] = NoTask
          /\ \A x \in Tasks : hist[x] = <<>>
          /\ Reorder(t, position)

SpecQueue == InitQueue /\ [][NextQueue]_vars

\* ------------------------------------------------------------- SpecBusy
\* SpecWork, also over a store where another worker, alive on the same
\* host, holds a fresh claim on t1 (a task with status Issues that it is
\* running) and t2 was added after t1
InitBusy ==
    /\ InitProcs
    /\ alive = Procs
    /\ agent = "code"
    /\ \E busy \in BOOLEAN, orphan \in BOOLEAN :
          /\ claims = [t \in Tasks |->
                         IF t = TheTask /\ busy THEN ClaimState(2, t, 0)
                         ELSE IF t = "t2" /\ orphan THEN OrphanClaim(t)
                         ELSE NoFile]
          /\ tasks = [t \in Tasks |->
                        IF t = TheTask
                        THEN [BuildTask EXCEPT !.status = "issues"]
                        ELSE IF t \in WorkTasks
                        THEN [BuildTask EXCEPT
                                !.added_at = IF busy THEN MaxAddedAt ELSE 0]
                        ELSE NoRec]
    /\ issues = [i \in IssueIds |->
                  IF i = TheIssue THEN OpenIssue(TheTask) ELSE NoIssue]
    /\ sessions = [s \in SessionIds |-> NoSession]

SpecBusy == InitBusy /\ [][NextWork]_vars

\* ----------------------------------------------------------- SpecReject
\* hold, reorder, issue add and issue assign with what they return, over
\* task records of the shapes below and an issue that is absent, open
\* and unassigned, or resolved
RejectShapes ==
    {<<"build", "pending", FALSE>>, <<"build", "pending", TRUE>>,
     <<"build", "running", FALSE>>, <<"review", "pending", FALSE>>,
     <<"completed", "completed", FALSE>>}

RejectRecs(at) ==
    {[exists |-> TRUE, stage |-> sh[1], status |-> sh[2], held |-> sh[3],
      last_session |-> NoSid,
      queue_rank |-> IF sh[1] = "build" THEN r ELSE <<>>, added_at |-> at] :
        sh \in RejectShapes, r \in QueueRanks}

\* the --stage values: none, a stage, the last stage, a stage of the
\* other agent kind
RejectStageArgs == {NoStage, "build", "completed", "edit"}

RejectIssues ==
    {NoIssue, [status |-> "open", task |-> NoTask, type |-> "build"],
     [status |-> "resolved", task |-> "t2", type |-> "build"]}

InitReject ==
    /\ InitProcs
    /\ alive = Procs
    /\ agent = "code"
    /\ claims = [t \in Tasks |-> NoFile]
    /\ \E a \in RejectRecs(0), b \in RejectRecs(MaxAddedAt) \cup {NoRec} :
          tasks = [t \in Tasks |->
                     IF t = "t1" THEN a ELSE IF t = "t2" THEN b ELSE NoRec]
    /\ \E x \in RejectIssues :
          issues = [i \in IssueIds |-> IF i = TheIssue THEN x ELSE NoIssue]
    /\ sessions = [s \in SessionIds |-> NoSession]

NextReject ==
    \/ \E t \in WorkTasks : HoldCmd(t)
    \/ \E t \in WorkTasks, position \in 0..MaxPosition :
          /\ \A x \in Tasks : hist[x] = <<>>
          /\ ReorderCmd(t, position)
    \/ \E t \in WorkTasks \cup {NoTask}, stage \in RejectStageArgs :
          IssueAddCmd(TheIssue, t, "build", stage)
    \/ \E t \in WorkTasks, stage \in RejectStageArgs :
          IssueAssignCmd(TheIssue, t, stage)
    \/ IssueUpdate
    \/ OutAck

SpecReject == InitReject /\ [][NextReject]_vars

\* ----------------------------------------------------------- SpecDelete
\* delete with and without --force, over one or two tasks and two issues
\* that are absent, open or resolved, of either task or of none
DeleteIssues ==
    {NoIssue} \cup
    {[status |-> st, task |-> t, type |-> "build"] :
        st \in {"open", "resolved"}, t \in WorkTasks \cup {NoTask}}

InitDelete ==
    /\ InitProcs
    /\ alive = Procs
    /\ agent = "code"
    /\ claims = [t \in Tasks |-> NoFile]
    /\ \E b \in {NewTaskState("build", FALSE, 0), NoRec} :
          tasks = [t \in Tasks |->
                     IF t = "t1" THEN NewTaskState("build", FALSE, 0)
                     ELSE IF t = "t2" THEN b ELSE NoRec]
    /\ \E x, y \in DeleteIssues :
          issues = [i \in IssueIds |-> IF i = TheIssue THEN x ELSE y]
    /\ sessions = [s \in SessionIds |-> NoSession]

NextDelete ==
    \/ \E t \in WorkTasks, force \in BOOLEAN : DeleteCmd(t, force)
    \/ \E i \in IssueIds : DeleteUnassign(i)
    \/ DeleteRemove
    \/ \E i \in IssueIds : IssueResolve(i)
    \/ SyncList
    \/ SyncWrite
    \/ OutAck

SpecDelete == InitDelete /\ [][NextDelete]_vars

\* ----------------------------------------------------------- SpecCreate
\* task and queue on a store of either agent kind, with set-stage, hold
\* and activate in between
Descriptions == {NoDescription, <<"d1">>, <<"d2">>}

NextCreate ==
    \/ \E hold \in BOOLEAN, description \in Descriptions :
          TaskCmd(TheTask, hold, description)
    \/ \E dir \in BOOLEAN : QueueCmd(TheTask, dir)
    \/ OutAck
    \/ \E stage \in StageArgs : SetStageStart(TheTask, stage)
    \/ SetStageWrite
    \/ Hold(TheTask)
    \/ Activate(TheTask)
    \/ SyncList
    \/ SyncWrite

SpecCreate == InitTask /\ [][NextCreate]_vars

\* ----------------------------------------------------------- SpecStages
\* next_stage followed from every stage of the agent's list, for two
\* tasks at a time
MaxWalk == 8

Last(path) == path[Len(path)]

InitStages ==
    /\ InitCore
    /\ doc = NoDoc
    /\ alive = Procs
    /\ agent \in {"code", "writer"}
    /\ claims = [t \in Tasks |-> NoFile]
    /\ InitStore
    /\ walk \in [WorkTasks -> {<<stage>> : stage \in stages(agent)}]

\* one more application of next_stage, where it is defined
Follow(t) ==
    /\ Len(walk[t]) < MaxWalk
    /\ next_stage(agent, Last(walk[t])) # NoStage
    /\ walk' = [walk EXCEPT ![t] = Append(@, next_stage(agent, Last(@)))]
    /\ UNCHANGED <<claimVars, procVars, agent, tasks, issues, sessions, callVars,
                   runVars, fileVars, trips, treeVars, pureVars, outVars, doc>>

NextStages == \E t \in WorkTasks : Follow(t)

SpecStages == InitStages /\ [][NextStages]_vars

\* ------------------------------------------------------------- SpecText
\* The issue file (issues.rs). A string is a sequence of characters; the
\* keys of the front matter and the words of the enums are one symbol
\* each, which no title, body or file name contains.
MaxTitle == 2
MaxBody == 2

Chars == {"x", " ", ":", "-", "\n"}
Whitespace == {" ", "\n", "\r"}
Strs(n) == UNION {[1..k -> Chars] : k \in 0..n}

\* Option<String>
None == <<>>
Some(v) == <<v>>

\* str::trim
RECURSIVE trim_start(_)
trim_start(str) ==
    IF str # <<>> /\ str[1] \in Whitespace THEN trim_start(Tail(str)) ELSE str

RECURSIVE trim_end(_)
trim_end(str) ==
    IF str # <<>> /\ str[Len(str)] \in Whitespace
    THEN trim_end(SubSeq(str, 1, Len(str) - 1))
    ELSE str

trim(str) == trim_end(trim_start(str))

\* the pieces of a string between its newlines
RECURSIVE Split(_)
Split(str) ==
    IF \A k \in DOMAIN str : str[k] # "\n" THEN <<str>>
    ELSE LET k == CHOOSE i \in DOMAIN str :
                     str[i] = "\n" /\ \A j \in 1..(i - 1) : str[j] # "\n"
         IN <<SubSeq(str, 1, k - 1)>> \o Split(SubSeq(str, k + 1, Len(str)))

\* str::lines: no line for the nothing after a final newline, and a
\* carriage return before the newline belongs to the line ending
lines(content) ==
    LET pieces == Split(content)
        n == Len(pieces)
        kept == IF pieces[n] = <<>> THEN SubSeq(pieces, 1, n - 1) ELSE pieces
    IN [k \in DOMAIN kept |->
          IF k < n /\ kept[k] # <<>> /\ kept[k][Len(kept[k])] = "\r"
          THEN SubSeq(kept[k], 1, Len(kept[k]) - 1)
          ELSE kept[k]]

\* lines.join("\n")
RECURSIVE join(_)
join(ls) ==
    IF ls = <<>> THEN <<>>
    ELSE IF Len(ls) = 1 THEN ls[1]
    ELSE ls[1] \o <<"\n">> \o join(Tail(ls))

Fence == <<"-", "-", "-">>

\* format!("{key}: {value}")
Field(key, value) == <<key, ":", " ">> \o value

\* the value as it is written
Verbatim(value) == value

\* .unwrap_or("-")
OrDash(opt) == IF opt = None THEN <<"-">> ELSE opt[1]

render_issue(issue) ==
    join(<<Fence,
           Field("id", issue.id),
           Field("title", issue.title),
           Field("status", <<issue.status>>),
           Field("priority", <<issue.priority>>),
           Field("task", OrDash(issue.task)),
           Field("type", <<issue.type>>),
           Field("source", <<issue.source>>),
           Field("created_at", issue.created_at),
           Field("updated_at", issue.updated_at),
           Field("file", OrDash(issue.file)),
           Fence>>
         \o (IF issue.body # None /\ trim(issue.body[1]) # <<>>
             THEN <<<<>>, trim(issue.body[1])>>
             ELSE <<>>))

\* line.split_once(':')
HasColon(line) == \E k \in DOMAIN line : line[k] = ":"
ColonAt(line) ==
    CHOOSE k \in DOMAIN line : line[k] = ":" /\ \A j \in 1..(k - 1) : line[j] # ":"
KeyOf(line) == trim(SubSeq(line, 1, ColonAt(line) - 1))
ValueOf(line) == trim(SubSeq(line, ColonAt(line) + 1, Len(line)))

\* parse_frontmatter: the lines between the fences and the text after them
parse_frontmatter(content) ==
    LET ls == lines(content)
        fenced == ls # <<>> /\ trim(ls[1]) = Fence
        closing == {k \in 2..Len(ls) : trim(ls[k]) = Fence}
        close == IF closing = {} THEN Len(ls) + 1
                 ELSE CHOOSE k \in closing : \A j \in closing : k <= j
    IN IF fenced
       THEN [front |-> SelectSeq(SubSeq(ls, 2, close - 1),
                                 LAMBDA line : trim(line) # <<>> /\ HasColon(line)),
             body |-> join(SubSeq(ls, close + 1, Len(ls)))]
       ELSE [front |-> <<>>, body |-> join(ls)]

\* frontmatter.get(key): the last line with the key has set the value
Has(front, key) == \E k \in DOMAIN front : KeyOf(front[k]) = <<key>>
Get(front, key) ==
    LET k == CHOOSE i \in DOMAIN front :
                 /\ KeyOf(front[i]) = <<key>>
                 /\ \A j \in DOMAIN front : KeyOf(front[j]) = <<key>> => j <= i
    IN ValueOf(front[k])

\* the from_str of the four enums: the words they know
IssueStatuses == {"open", "resolved"}
IssuePriorities == {"P0", "P1", "P2", "P3"}
AllIssueTypes == {"spec", "build", "bug", "test", "perf", "other"}
IssueSources == {"review", "debug", "submit", "manual"}
Known(value, words) == Len(value) = 1 /\ value[1] \in words

\* "if trimmed.is_empty() || trimmed == "-" { None }"
DashIsNone(front, key) ==
    IF ~Has(front, key) THEN None
    ELSE LET trimmed == trim(Get(front, key))
         IN IF trimmed = <<>> \/ trimmed = <<"-">> THEN None ELSE Some(trimmed)

ParseError == [ok |-> FALSE]

parse_issue(content) ==
    LET fm == parse_frontmatter(content)
        front == fm.front
    IN IF \/ \E key \in {"id", "title", "status", "priority", "type", "source",
                         "created_at", "updated_at"} : ~Has(front, key)
          \/ ~Known(Get(front, "status"), IssueStatuses)
          \/ ~Known(Get(front, "priority"), IssuePriorities)
          \/ ~Known(Get(front, "type"), AllIssueTypes)
          \/ ~Known(Get(front, "source"), IssueSources)
       THEN ParseError
       ELSE [ok |-> TRUE,
             id |-> Get(front, "id"),
             title |-> Get(front, "title"),
             status |-> Get(front, "status")[1],
             priority |-> Get(front, "priority")[1],
             task |-> DashIsNone(front, "task"),
             type |-> Get(front, "type")[1],
             source |-> Get(front, "source")[1],
             created_at |-> Get(front, "created_at"),
             updated_at |-> Get(front, "updated_at"),
             file |-> DashIsNone(front, "file"),
             body |-> IF trim(fm.body) = <<>> THEN None ELSE Some(trim(fm.body))]

\* the titles cmd_issue_add lets pass ("Issue title cannot be empty"):
\* the short ones, and one with a line of three dashes in it
Titles ==
    {title \in Strs(MaxTitle) \cup {<<"x", "\n", "-", "-", "-">>} :
        trim(title) # <<>>}

\* the issues written: such a title, any body, a task and a file or none
\* (a task may be called "-": validate_task_name lets it pass)
IssuesWritten ==
    [ok : {TRUE},
     id : {<<"x", "-", "x">>},
     title : Titles,
     status : IssueStatuses,
     priority : {"P2"},
     task : {None, Some(<<"x">>), Some(<<"-">>)},
     type : {"build"},
     source : {"manual", "review"},
     created_at : {<<"x", ":", "x">>},
     updated_at : {<<"x", ":", "x">>},
     file : {None, Some(<<"x">>)},
     body : {None} \cup {Some(b) : b \in Strs(MaxBody)}]

InitText ==
    /\ InitCore
    /\ walk = NoWalk
    /\ alive = Procs
    /\ agent = "code"
    /\ claims = [t \in Tasks |-> NoFile]
    /\ InitStore
    /\ \E issue \in IssuesWritten : doc = [pc |-> "issue", issue |-> issue]

\* save_issue: render_issue, write_text_atomic
SaveIssue ==
    /\ doc.pc = "issue"
    /\ doc' = [pc |-> "text", issue |-> doc.issue,
               text |-> render_issue(doc.issue)]
    /\ UNCHANGED <<claimVars, procVars, agent, tasks, issues, sessions, callVars,
                   runVars, fileVars, trips, treeVars, pureVars, outVars, walk>>

\* load_issue: read_to_string, parse_issue
LoadIssue ==
    /\ doc.pc = "text"
    /\ doc' = [pc |-> "parsed", issue |-> doc.issue, text |-> doc.text,
               back |-> parse_issue(doc.text)]
    /\ UNCHANGED <<claimVars, procVars, agent, tasks, issues, sessions, callVars,
                   runVars, fileVars, trips, treeVars, pureVars, outVars, walk>>

NextText == SaveIssue \/ LoadIssue

SpecText == InitText /\ [][NextText]_vars

\* =================================================================
\* Properties of the Claim/Lease manager (SpecClaim)
\* =================================================================

\* C2: two processes call claim_task for the same task concurrently, no
\* claim file beforehand, no time has passed and every process is alive:
\* once both calls have returned, exactly one of them returned a lease.
C2_ClaimExclusive ==
    \A p, q \in Procs :
        ( /\ p # q
          /\ pc[p] = "claim_ret" /\ pc[q] = "claim_ret"
          /\ cmd[p] = "claim" /\ cmd[q] = "claim"
          /\ cur[p] = cur[q]
          /\ now = 0
          /\ alive = Procs
          /\ \A r \in Procs \ {p, q} : cmd[r] = "none" )
        => ( /\ ret[p] \in {"lease", "none"}
             /\ ret[q] \in {"lease", "none"}
             /\ (ret[p] = "lease") # (ret[q] = "lease") )

C2_Witness ==
    /\ pc[1] = "claim_ret" /\ pc[2] = "claim_ret"
    /\ cur[1] = "t1" /\ cur[2] = "t1"
    /\ now = 0 /\ alive = Procs /\ cmd[3] = "none"
    /\ ret[1] = "none" /\ ret[2] = "lease"
    /\ claims["t1"] = ClaimState(2, "t1", 0)

\* C3: at most one live claim per task, also during the reclamation of a
\* stale claim: no two live processes hold a ClaimGuard for the same task
\* while the claims they wrote are both within their ttl.
C3_OneLiveClaim ==
    \A p, q \in Procs :
        ( /\ p # q
          /\ p \in alive /\ q \in alive
          /\ guard[p] # NoTask
          /\ guard[p] = guard[q] )
        => (now - claimedAt[p] > TTL \/ now - claimedAt[q] > TTL)

\* C4: a claim_task call that finds a claim file holding a live claim
\* (elapsed time within ttl_seconds, owner on another host or a live process
\* on the caller's host) returns no lease and leaves the claim file as it is.
C4_LiveClaimHonored ==
    [][\A p \in Procs :
         ( /\ pc[p] \in {"claim_create", "claim_read"}
           /\ claim_task(p)
           /\ read_claim_ok(claims[cur[p]])
           /\ LiveClaim(claims[cur[p]], HostOf(p)) )
         => ( /\ claims' = claims
              /\ guard'[p] = guard[p]
              /\ pc[p] = "claim_create" => pc'[p] = "claim_read"
              /\ pc[p] = "claim_read" =>
                    (pc'[p] = "claim_ret" /\ ret'[p] = "none") )]_vars

C4_Witness ==
    \E p \in Procs :
        /\ pc[p] = "claim_ret" /\ ret[p] = "none" /\ guard[p] = NoTask
        /\ read_claim_ok(claims[cur[p]])
        /\ claims[cur[p]].pid # p
        /\ claims[cur[p]].host = HostOf(p)
        /\ now - claims[cur[p]].started_at = TTL
        /\ LiveClaim(claims[cur[p]], HostOf(p))

\* C5: a claim_task call that reads a claim whose started_at is older than
\* now - ttl_seconds (owner alive or not, on any host), or a claim of a dead
\* process on the caller's host, and during which no other process changes
\* the claim file, returns a lease, and the claim file names the caller.
C5_StaleClaimReclaimed ==
    \A p \in Procs :
        (pc[p] = "claim_ret" /\ reclaim[p] = "solo")
        => ( /\ ret[p] = "lease"
             /\ guard[p] = cur[p]
             /\ claims[cur[p]] = ClaimState(p, cur[p], claimedAt[p]) )

C5_Witness ==
    \E p, q \in Procs :
        /\ p # q
        /\ pc[p] = "claim_ret" /\ reclaim[p] = "solo" /\ ret[p] = "lease"
        /\ claims[cur[p]].pid = p
        /\ q \in alive /\ guard[q] = cur[p] /\ HostOf(q) # HostOf(p)
        /\ now - claimedAt[q] > TTL

\* C35: releasing or dropping a ClaimGuard removes only the claim that
\* this guard created: when the claim file of the guard's task has been
\* created by another process meanwhile (a reclaim after the ttl elapsed,
\* the first holder still at work), the release leaves that file as it is.
C35_DropOwnClaimOnly ==
    [][\A p \in Procs :
         ( /\ pc[p] = "claim_ret" /\ cmd[p] = "claim" /\ pc'[p] = "idle"
           /\ guard[p] # NoTask
           /\ \E q \in Procs \ {p} :
                 /\ guard[q] = guard[p]
                 /\ claims[guard[p]] = ClaimState(q, guard[p], claimedAt[q])
                 /\ claimedAt[q] - claimedAt[p] > TTL )
         => claims'[guard[p]] = claims[guard[p]]]_vars

\* a claim file without metadata whose creator has crashed, with no guard
\* of an earlier holder pointing at it and no live call left over from
\* before the crash that is about to remove a stale claim it has read at
\* this path, or to write into a file it had created there
Abandoned(t) ==
    /\ claims[t].kind = "empty"
    /\ claims[t].creator \notin alive
    /\ \A p \in Procs : guard[p] # t
    /\ \A p \in alive :
          cur[p] = t
          => pc[p] \notin {"claim_remove", "claim_write", "claim_rewrite"}

\* C36: a claim file is reclaimable also when it holds no parsable
\* metadata: when a process has crashed after creating the claim file and
\* before writing the metadata, a later claim_task call of another
\* process for that task obtains the lease.
C36_EmptyClaimReclaimed ==
    \A p \in Procs :
        ( /\ p \in alive
          /\ pc[p] = "claim_ret" /\ cmd[p] = "claim"
          /\ Abandoned(cur[p]) )
        => ret[p] = "lease"

\* no step of any claim_task call changes an abandoned claim file, and
\* no call is given a guard for its task
AbandonedStays ==
    [][\A t \in Tasks :
         Abandoned(t) => (claims'[t] = claims[t] /\ Abandoned(t)')]_vars

\* C37: a claim whose started_at lies after the claimer's clock (negative
\* elapsed time) is not treated as expired by its ttl: unless its owner is
\* a dead process on the claimer's host, is_claim_stale is false for it
\* and the claim_task call that read it returns no lease.
C37_FutureClaimNotStale ==
    [][\A p \in Procs :
         ( /\ pc[p] = "claim_read" /\ pc'[p] \notin {"claim_read", "dead"}
           /\ read_claim_ok(claims[cur[p]])
           /\ now - claims[cur[p]].started_at < 0
           /\ ~( /\ claims[cur[p]].host = HostOf(p)
                 /\ ~is_pid_alive(claims[cur[p]].pid) ) )
         => ( /\ ~is_claim_stale(claims[cur[p]], HostOf(p))
              /\ pc'[p] = "claim_ret"
              /\ ret'[p] = "none" )]_vars

\* =================================================================
\* Properties of the orchestrator commands (SpecRun, SpecWork)
\* =================================================================

\* C1: two workers never run the same task simultaneously: in no reachable
\* state do two processes each supervise a spawned agent, with a Running
\* session, for the same task.
C1_NoTwoWorkers ==
    \A p, q \in Procs :
        ( /\ p # q
          /\ child[p] = "running"
          /\ child[q] = "running"
          /\ sessions[sid[p]].status = "running"
          /\ sessions[sid[q]].status = "running" )
        => cur[p] # cur[q]

C7_IssuesStatusKept ==
    [][\A p \in Procs :
          ( /\ pc[p] = "stage_ret"
            /\ pc'[p] # "stage_ret"
            /\ tasks[cur[p]].exists
            /\ tasks[cur[p]].status = "issues"
            /\ task_has_open_issues(cur[p])
            /\ (task_has_open_issues(cur[p]))' )
          => tasks'[cur[p]].status = "issues"]_vars

\* =================================================================
\* Properties of the task record (SpecTask)
\* =================================================================

\* C8: a task has status Completed only when its stage is 'completed' and
\* it has no open issues: every step that takes a task from status Issues
\* to status Completed leaves the task at stage 'completed' and without an
\* open issue assigned to it.
C8_CompletedOnlyWithoutIssues ==
    [][\A t \in Tasks :
          ( /\ tasks[t].status = "issues"
            /\ tasks'[t].status = "completed" )
          => (tasks'[t].stage = "completed" /\ ~(task_has_open_issues(t))')]_vars

\* C9: issues block completion: a finish call whose resolved next stage is
\* 'completed' and which found an open issue of the task writes stage
\* 'build' and status Issues to the task record.
C9_IssuesBlockCompletion ==
    [][( /\ fin.pc = "checked"
         /\ fin' = IdleFin
         /\ fin.resolved = "completed"
         /\ fin.has_open
         /\ tasks[fin.task].exists )
       => ( /\ tasks'[fin.task].stage = "build"
            /\ tasks'[fin.task].status = "issues" )]_vars

\* a finish call has ended: its session records the resolved next stage
\* 'completed', the task has an open issue, and the task record the call
\* wrote is at stage 'build' with status Issues
C9_Witness ==
    \E s \in SessionIds :
        /\ fin = IdleFin
        /\ op = IdleOp
        /\ sessions[s].status = "finished"
        /\ sessions[s].next_stage = "completed"
        /\ tasks[TheTask].exists
        /\ tasks[TheTask].last_session = s
        /\ tasks[TheTask].stage = "build"
        /\ tasks[TheTask].status = "issues"
        /\ task_has_open_issues(TheTask)

\* C10: in every reachable state the persisted stage of every task is a
\* member of the stage list of the agent kind of the store.
C10_StageInStageList ==
    \A t \in Tasks : tasks[t].exists => tasks[t].stage \in stages(agent)

\* a writer task that a finish call with --next edit has moved to 'edit'
C10_Witness ==
    /\ agent = "writer"
    /\ fin = IdleFin
    /\ op = IdleOp
    /\ tasks[TheTask].exists
    /\ tasks[TheTask].stage = "edit"
    /\ tasks[TheTask].status = "pending"
    /\ tasks[TheTask].last_session # NoSid

\* =================================================================
\* Properties of the session records
\* =================================================================

\* C11: session status is monotonic: in every step, a session record whose
\* status is Finished or Failed keeps that status, whatever the
\* interleaving of finish calls with the supervisor's marking of the session
\* as Failed after the agent process has exited.
C11_SessionStatusFinal ==
    [][\A s \in SessionIds :
          sessions[s].status \in {"finished", "failed"}
          => sessions'[s].status = sessions[s].status]_vars

\* C12: session history is append-only: a stage attempt creates its session
\* record under an id no existing record has, so a step that starts an
\* attempt (run_stage's create_session) leaves every existing session
\* record as it was.
C12_SessionsAppendOnly ==
    [][\A p \in Procs :
          (pc[p] = "stage_session" /\ pc'[p] = "poll")
          => \A s \in SessionIds :
                sessions[s].status # "none" => sessions'[s] = sessions[s]]_vars

\* C13: a session's next_stage, once set, is a stage of the agent kind,
\* and a finish call whose stage is not a finish stage of the agent kind or
\* whose --next value is not a stage of the agent kind is refused with no
\* session and no task record changed.
C13_NextStageKnown ==
    [][/\ \A s \in SessionIds :
             sessions'[s].next_stage # NoStage
             => sessions'[s].next_stage \in stages(agent)
       /\ (fin.pc = "idle" /\ fin'.pc # "idle"
           /\ ( \/ fin'.stage \notin valid_finish_stages(agent)
                \/ fin'.pc = "rejected"
                   /\ fin'.next \notin stages(agent) \cup {NoStage} ))
          => (fin'.pc = "rejected" /\ sessions' = sessions /\ tasks' = tasks)
       /\ (fin.pc = "idle" /\ fin'.pc = "saved" /\ fin'.override)
          => fin'.resolved \in stages(agent)]_vars

\* after an accepted finish (build is next), a call with an unknown --next
\* has been refused and the session still names the first call's stage
C13_Witness ==
    /\ agent = "code"
    /\ fin.pc = "rejected"
    /\ fin.stage = "review"
    /\ fin.next = "bogus"
    /\ sessions[TheSession].status = "finished"
    /\ sessions[TheSession].next_stage = "build"
    /\ tasks[TheTask].stage = "build"

\* =================================================================
\* Properties of the file-level steps (SpecLock)
\* =================================================================

\* C14: concurrent update_task calls on one record are serializable and a
\* concurrent load never sees a partial file: in every reachable state the
\* record on disk is complete and equals the mutators of all the updates
\* that were written so far applied one after another, in the order of
\* their writes, to the first record; every update that has returned is
\* among them; and no process has loaded an incomplete record.
C14_UpdatesSerializable ==
    /\ torn = {}
    /\ tasks[TheTask] = MutateAll(hist[TheTask], BuildTask)
    /\ \A p \in Workers :
          (pc[p] = "done" /\ cmd[p] \in Mutators)
          => \E k \in 1..Len(hist[TheTask]) : hist[TheTask][k] = cmd[p]
    /\ \A p \in Procs : mem[p].state # "partial"

\* two updates with different mutators have returned after waiting for each
\* other, and the third process loaded the record between their writes
C14_Witness ==
    /\ hist[TheTask] = <<"hold", "mark">>
    /\ pc[1] = "done" /\ cmd[1] = "hold"
    /\ pc[2] = "done" /\ cmd[2] = "mark"
    /\ pc[3] = "done"
    /\ mem[3] = Whole(Mutate("hold", BuildTask))
    /\ tasks[TheTask].held
    /\ tasks[TheTask].status = "running"

\* C15: changes of an issue file are not lost: once an issue resolve and an
\* issue assign on the same issue have both returned, the issue file is
\* Resolved and names the task of the assign.
C15_BothIssueChangesKept ==
    \A p, q \in Workers :
        ( /\ pc[p] = "done" /\ cmd[p] = "issue_resolve"
          /\ pc[q] = "done" /\ cmd[q] = "issue_assign" )
        => ( /\ issues[TheIssue].status = "resolved"
             /\ issues[TheIssue].task = cur[q] )

\* C17: issues found after completion are not stranded: a non-held task
\* at 'completed' with status Issues that run-queue has selected and
\* claimed is not skipped; run-queue keeps it as its current task until a
\* build attempt for it has been started.
C17_StrandedNotSkipped ==
    [][\A p \in Procs :
          ( /\ cmd[p] = "run_queue"
            /\ pc[p] = "rq_top"
            /\ cur[p] # NoTask
            /\ guard[p] = cur[p]
            /\ tasks[cur[p]].exists
            /\ ~tasks[cur[p]].held
            /\ tasks[cur[p]].stage = "completed"
            /\ tasks[cur[p]].status = "issues" )
          => cur'[p] = cur[p]]_vars

\* C19 as stated: run-queue counts the review->build round trips of its
\* current task from 0 each time a task becomes current; when the count
\* reaches the limit (100 when 0 was given) the task is held, its claim is
\* released and run-queue goes on without a current task; and no task gets
\* more than 'limit' round trips within one run-queue call.
C19_LoopGuardPerCall ==
    [][\A p \in Procs :
          cmd'[p] = "run_queue"
          =>
          /\ ( /\ pc[p] = "claim_ret" /\ stageL[p] = NoStage
               /\ pc'[p] = "rq_top" /\ cur'[p] # NoTask )
             => loops'[p] = 0
          /\ ( /\ pc[p] = "stage_ret" /\ pc'[p] # "stage_ret"
               /\ tasks[cur[p]].exists )
             => loops'[p] = IF /\ res[p] = "finished" /\ stageL[p] = "review"
                               /\ tasks[cur[p]].stage = "build"
                            THEN loops[p] + 1 ELSE loops[p]
          /\ loops'[p] <= limit'[p]
          /\ loops'[p] = limit'[p] => pc'[p] = "rq_hold"
          /\ ( /\ pc[p] = "rq_hold" /\ pc'[p] # "rq_hold"
               /\ tasks[cur[p]].exists )
             => /\ tasks'[cur[p]].held
                /\ claims'[cur[p]] = NoFile
                /\ guard'[p] = NoTask
                /\ cur'[p] = NoTask
                /\ pc'[p] = "rq_top"
          /\ ( /\ pc[p] = "idle" /\ limit'[p] \notin LoopLimits )
             => limit'[p] = 100
          /\ \A t \in Tasks : trips'[p][t] <= limit'[p]]_vars

\* C19, amended: as above without the last part; the count that is
\* limited is the one of the task's current turn (review_loops), from the
\* moment it became current.
C19_LoopGuardPerTurn ==
    [][\A p \in Procs :
          cmd'[p] = "run_queue"
          =>
          /\ ( /\ pc[p] = "claim_ret" /\ stageL[p] = NoStage
               /\ pc'[p] = "rq_top" /\ cur'[p] # NoTask )
             => loops'[p] = 0
          /\ ( /\ pc[p] = "stage_ret" /\ pc'[p] # "stage_ret"
               /\ tasks[cur[p]].exists )
             => loops'[p] = IF /\ res[p] = "finished" /\ stageL[p] = "review"
                               /\ tasks[cur[p]].stage = "build"
                            THEN loops[p] + 1 ELSE loops[p]
          /\ loops'[p] <= limit'[p]
          /\ loops'[p] = limit'[p] => pc'[p] = "rq_hold"
          /\ ( /\ pc[p] = "rq_hold" /\ pc'[p] # "rq_hold"
               /\ tasks[cur[p]].exists )
             => /\ tasks'[cur[p]].held
                /\ claims'[cur[p]] = NoFile
                /\ guard'[p] = NoTask
                /\ cur'[p] = NoTask
                /\ pc'[p] = "rq_top"
          /\ ( /\ pc[p] = "idle" /\ limit'[p] \notin LoopLimits )
             => limit'[p] = 100
          /\ cur'[p] # NoTask => loops'[p] <= trips'[p][cur'[p]]]_vars

\* --loop-limit 0: the task was held after its 100th round trip, and
\* run-queue has let it go
C19_Witness ==
    /\ cmd[1] = "run_queue"
    /\ limit[1] = 100
    /\ trips[1][TheTask] = 100
    /\ loops[1] = 0
    /\ tasks[TheTask].held
    /\ cur[1] = NoTask
    /\ claims[TheTask] = NoFile
    /\ pc[1] = "rq_top"

\* =================================================================
\* Properties of the scheduler and of reorder (SpecQueue)
\* =================================================================

\* C16: for every task list, next_eligible_task returns no held task and no
\* task with status Running, Failed or Completed; when a queue stage has a
\* non-held task with status Pending, Incomplete or Issues, the result is
\* such a task of the first such stage in queue order, and none of that
\* stage's candidates has a smaller key: (queue_rank, a missing rank last,
\* then added_at) at build, added_at elsewhere.  For the build tasks A (t1,
\* no rank, added first), B (t2, rank 2) and C (t3, rank 1) the result is
\* C while C waits, then B, then A.
C16_NextEligibleLeast ==
    LET R == next_eligible_task(agent)
        qs == queue_stages(agent)
        Waiting(t) == /\ tasks[t].exists
                      /\ ~tasks[t].held
                      /\ tasks[t].status \in {"pending", "incomplete", "issues"}
        Cand(st) == {t \in Tasks : Waiting(t) /\ tasks[t].stage = st}
        With == {k \in 1..Len(qs) : Cand(qs[k]) # {}}
        Rk(rec) == IF rec.queue_rank = <<>> THEN MaxRank + MaxPosition + 1
                   ELSE rec.queue_rank[1]
        KeyLeq(st, a, b) ==
            IF st = "build"
            THEN Rk(a) < Rk(b) \/ (Rk(a) = Rk(b) /\ a.added_at <= b.added_at)
            ELSE a.added_at <= b.added_at
        AtBuild(t) == tasks[t].stage = "build" /\ ~tasks[t].held
    IN /\ \A e \in R :
             /\ ~tasks[e.task].held
             /\ tasks[e.task].status \notin {"running", "failed", "completed"}
       /\ With # {}
          => LET k == CHOOSE m \in With : \A j \in With : m <= j
             IN /\ R # {}
                /\ \A e \in R :
                      /\ e.stage = qs[k]
                      /\ e.task \in Cand(qs[k])
                      /\ \A u \in Cand(qs[k]) :
                            KeyLeq(qs[k], tasks[e.task], tasks[u])
       /\ ( /\ Cand("spec-review-issues") = {}
            /\ AtBuild("t1") /\ AtBuild("t2") /\ AtBuild("t3")
            /\ tasks["t1"].queue_rank = <<>>
            /\ tasks["t2"].queue_rank = <<2>>
            /\ tasks["t3"].queue_rank = <<1>> )
          => /\ Waiting("t3") => R = {[task |-> "t3", stage |-> "build"]}
             /\ (~Waiting("t3") /\ Waiting("t2"))
                => R = {[task |-> "t2", stage |-> "build"]}
             /\ (~Waiting("t3") /\ ~Waiting("t2") /\ Waiting("t1"))
                => R = {[task |-> "t1", stage |-> "build"]}

\* A, B and C as in C16: C and B were selected and taken up, and now A is
\* the selection
C16_Witness ==
    /\ pc[1] = "picked"
    /\ cur[1] = "t1"
    /\ stageL[1] = "build"
    /\ \A t \in Tasks : tasks[t].stage = "build" /\ ~tasks[t].held
    /\ tasks["t1"].queue_rank = <<>> /\ tasks["t1"].status = "pending"
    /\ tasks["t2"].queue_rank = <<2>> /\ tasks["t2"].status = "running"
    /\ tasks["t3"].queue_rank = <<1>> /\ tasks["t3"].status = "running"
    /\ tasks["t1"].added_at < tasks["t2"].added_at

\* C18 as stated: after reorder(t, position), position >= 1, on a non-held
\* build task, the n non-held build tasks have ranks 1..n, t has rank
\* min(position, n), the others keep their relative order, only records
\* whose rank changed were written, and the scheduler's next selection is
\* the task of rank 1.
C18_ReorderThenFirst ==
    [][\A t \in Tasks, position \in 1..MaxPosition :
          Reorder(t, position)
          => LET B == BuildQueue
                 n == Cardinality(B)
                 Rk(rec) == IF rec.queue_rank = <<>> THEN MaxRank + MaxPosition + 1
                            ELSE rec.queue_rank[1]
                 KeyLess(a, b) ==
                     Rk(a) < Rk(b) \/ (Rk(a) = Rk(b) /\ a.added_at < b.added_at)
             IN
             /\ \A x \in B : /\ tasks'[x].queue_rank # <<>>
                             /\ tasks'[x].queue_rank[1] \in 1..n
             /\ \A x, y \in B : x # y => tasks'[x].queue_rank # tasks'[y].queue_rank
             /\ tasks'[t].queue_rank = <<IF position < n THEN position ELSE n>>
             /\ \A x, y \in B \ {t} :
                   KeyLess(tasks[x], tasks[y])
                   => tasks'[x].queue_rank[1] < tasks'[y].queue_rank[1]
             /\ \A x \in Tasks :
                   /\ tasks'[x] = [tasks[x] EXCEPT !.queue_rank = tasks'[x].queue_rank]
                   /\ x \notin B => tasks'[x] = tasks[x]
                   /\ (hist'[x] # hist[x])
                      <=> (tasks'[x].queue_rank # tasks[x].queue_rank)
             /\ \A x \in B :
                   tasks'[x].queue_rank = <<1>>
                   => (next_eligible_task(agent))'
                        = {[task |-> x, stage |-> "build"]}]_vars

\* C18, amended: as above, and the scheduler's next selection is the task
\* of rank 1 when that task has status Pending, Incomplete or Issues and no
\* task waits at spec-review-issues, the stage the queue serves before build.
C18_ReorderThenFirstWaiting ==
    [][\A t \in Tasks, position \in 1..MaxPosition :
          Reorder(t, position)
          => LET B == BuildQueue
                 n == Cardinality(B)
                 Rk(rec) == IF rec.queue_rank = <<>> THEN MaxRank + MaxPosition + 1
                            ELSE rec.queue_rank[1]
                 KeyLess(a, b) ==
                     Rk(a) < Rk(b) \/ (Rk(a) = Rk(b) /\ a.added_at < b.added_at)
             IN
             /\ \A x \in B : /\ tasks'[x].queue_rank # <<>>
                             /\ tasks'[x].queue_rank[1] \in 1..n
             /\ \A x, y \in B : x # y => tasks'[x].queue_rank # tasks'[y].queue_rank
             /\ tasks'[t].queue_rank = <<IF position < n THEN position ELSE n>>
             /\ \A x, y \in B \ {t} :
                   KeyLess(tasks[x], tasks[y])
                   => tasks'[x].queue_rank[1] < tasks'[y].queue_rank[1]
             /\ \A x \in Tasks :
                   /\ tasks'[x] = [tasks[x] EXCEPT !.queue_rank = tasks'[x].queue_rank]
                   /\ x \notin B => tasks'[x] = tasks[x]
                   /\ (hist'[x] # hist[x])
                      <=> (tasks'[x].queue_rank # tasks[x].queue_rank)
             /\ \A x \in B :
                   ( /\ tasks'[x].queue_rank = <<1>>
                     /\ tasks[x].status \in {"pending", "incomplete", "issues"}
                     /\ \A y \in Tasks :
                           ~( /\ tasks[y].exists /\ ~tasks[y].held
                              /\ tasks[y].stage = "spec-review-issues"
                              /\ tasks[y].status
                                   \in {"pending", "incomplete", "issues"} ) )
                   => (next_eligible_task(agent))'
                        = {[task |-> x, stage |-> "build"]}]_vars

\* three waiting build tasks added in the order t1, t2, t3 (t2 and t3
\* together), none ranked; reorder(t2, 1) has written all three ranks and t2
\* is the selection
C18_Witness ==
    /\ \A t \in Tasks : /\ tasks[t].stage = "build" /\ ~tasks[t].held
                        /\ hist[t] = <<"rank">>
    /\ tasks["t2"].queue_rank = <<1>>
    /\ tasks["t1"].queue_rank = <<2>>
    /\ tasks["t3"].queue_rank = <<3>>
    /\ pc[1] = "picked"
    /\ cur[1] = "t2"

\* =================================================================
\* Properties of the graceful shutdown (SpecShutdown)

\* C20: when terminate_child has returned, the spawned root process has
\* exited, and if it returned from the SIGINT or SIGTERM phase every
\* descendant it ever knew of is dead as well.
C20_RootExitedOnReturn ==
    tc.pc = "returned"
    => /\ ptab[Root].state = "gone"
       /\ tc.early => \A q \in tc.ever : ptab[q].state = "gone"

\* C21: a descendant that terminate_child has discovered stays in
\* known_descendants for as long as it is alive, also after the root has
\* exited and orphaned it, and every round of the escalation signals it;
\* so once a discovered descendant is orphaned by the root's exit, the
\* call returns and the root and every discovered descendant end up dead.
C21_OrphanStillTerminated ==
    /\ [][ /\ \A q \in tc.known_descendants :
                (tc'.pc \notin {"idle", "returned"} /\ ptab'[q].state # "gone")
                => q \in tc'.known_descendants
           /\ (tc.pc = "signal" /\ tc.phase <= KillPhase /\ tc'.pc = "wait")
              => \A q \in tc.known_descendants :
                    ( /\ ptab[q].state = "running"
                      /\ PhaseSignal(tc.phase) \notin ptab[q].ignores )
                    => ptab'[q].state = "dying" ]_vars
    /\ ( /\ tc.pc \notin {"idle", "returned"}
         /\ ptab[Root].state = "gone"
         /\ \E q \in tc.known_descendants : ptab[q].state = "running" )
       ~> ( /\ tc.pc = "returned"
            /\ ptab[Root].state = "gone"
            /\ \A q \in tc.ever : ptab[q].state = "gone" )

\* the root has exited, its orphaned child is still known in the SIGTERM
\* round and has been sent a signal that ends it
C21_Witness ==
    /\ tc.pc = "wait"
    /\ tc.phase = TermPhase
    /\ ptab[Root].state = "gone"
    /\ 2 \in tc.known_descendants
    /\ ptab[2].state = "dying"
    /\ ptab[2].ppid = InitPid

\* how strong a signal is in the escalation
Strength(signal) ==
    IF signal = "SIGINT" THEN 1 ELSE IF signal = "SIGTERM" THEN 2 ELSE 3
Rounds(log, signal) == Cardinality({i \in DOMAIN log : log[i] = signal})

\* C33: terminate_child sends at most SIGINT_ATTEMPTS rounds of SIGINT,
\* then at most one round of SIGTERM, then SIGKILL, never a weaker signal
\* after a stronger one and never SIGTERM or SIGKILL before the rounds
\* that precede it; a further round is sent only after the wait that
\* followed the previous round ended without confirming the exit of the
\* tree, and no signal is sent once a wait has confirmed that the root
\* has exited and no known descendant is alive.
C33_EscalationOrder ==
    [][ LET log == tc.log
            after == tc'.log
        IN /\ \A i, j \in DOMAIN after :
                 i < j => Strength(after[i]) <= Strength(after[j])
           /\ Rounds(after, "SIGINT") <= SIGINT_ATTEMPTS
           /\ Rounds(after, "SIGTERM") <= 1
           /\ Rounds(after, "SIGTERM") = 1
              => Rounds(after, "SIGINT") = SIGINT_ATTEMPTS
           /\ Rounds(after, "SIGKILL") > 0 => Rounds(after, "SIGTERM") = 1
           /\ (Len(after) > Len(log) /\ log # <<>>) => ~tc.confirmed
           /\ (tc.confirmed /\ tc'.pc # "idle") => after = log ]_vars

\* the wait after the SIGKILL round has confirmed the exit of the tree
\* and child.kill() has sent nothing further
C33_Witness ==
    /\ tc.pc = "wait"
    /\ tc.phase = ChildKillPhase
    /\ tc.confirmed
    /\ tc.log = <<"SIGINT", "SIGINT", "SIGINT", "SIGTERM", "SIGKILL">>

\* the processes above d in the tree, up to n levels
RECURSIVE Ancestors(_, _)
Ancestors(d, n) ==
    IF n = 0 \/ d \notin Pids \/ ptab[d].ppid \notin Pids THEN {}
    ELSE {ptab[d].ppid} \cup Ancestors(ptab[d].ppid, n - 1)

\* C34: in every round of signal_process_tree each known live descendant
\* is signalled before the root, and a descendant is signalled before
\* every one of its own ancestors in the process tree.
C34_DeepestFirst ==
    [][ (tc.pc = "signal" /\ tc.phase <= KillPhase /\ tc'.pc = "wait")
        => LET round == tc'.round
           IN /\ \A q \in tc'.known_descendants :
                    pid_alive(q)
                    => \E i, j \in DOMAIN round :
                          i < j /\ round[i] = q /\ round[j] = Root
              /\ \A i, j \in DOMAIN round :
                    i < j => round[i] \notin Ancestors(round[j],
                                                       Cardinality(Pids))
      ]_vars

\* the first half of C34 alone: every known live descendant is signalled
\* before the root
DescendantsBeforeRoot ==
    [][ (tc.pc = "signal" /\ tc.phase <= KillPhase /\ tc'.pc = "wait")
        => LET round == tc'.round
           IN \A q \in tc'.known_descendants :
                 pid_alive(q)
                 => \E i, j \in DOMAIN round :
                       i < j /\ round[i] = q /\ round[j] = Root ]_vars

\* =================================================================
\* Properties of the operator's commands (SpecTask)

\* C22: issue add and issue assign of an open issue to a task, without a
\* stage override or with a valid one, go on to update the task; the
\* update sets the task's status to Issues and its stage to the override
\* if one was given, else moves a task at 'completed' to
\* 'spec-review-issues' for a spec issue and to 'build' for any other
\* type, and leaves a task at any other stage where it is.
C22_IssueForcesIssuesStatus ==
    [][ /\ \A i \in IssueIds :
              ( /\ op.kind = "idle"
                /\ op'.kind = "issue_update"
                /\ issues'[i] # issues[i] )
              => /\ issues'[i].status = "open"
                 /\ op'.task = issues'[i].task
                 /\ op'.type = issues'[i].type
                 /\ \/ op'.override = NoStage
                    \/ /\ op'.override \in stages(agent)
                       /\ op'.override # "completed"
        /\ ( /\ op.kind = "issue_update"
             /\ op'.kind # "issue_update"
             /\ tasks[op.task].exists )
           => /\ tasks'[op.task].status = "issues"
              /\ tasks'[op.task].stage =
                    IF op.override # NoStage THEN op.override
                    ELSE IF tasks[op.task].stage = "completed"
                         THEN (IF op.type = "spec" THEN "spec-review-issues"
                               ELSE "build")
                         ELSE tasks[op.task].stage ]_vars

\* a spec issue was added to the task and the task, which had been at
\* 'completed', is now at 'spec-review-issues' with status Issues
C22_Witness ==
    /\ op.kind = "idle"
    /\ fin.pc = "idle"
    /\ pc[1] = "idle"
    /\ sessions = [s \in SessionIds |-> NoSession]
    /\ issues[TheIssue] = [status |-> "open", task |-> TheTask, type |-> "spec"]
    /\ tasks[TheTask].stage = "spec-review-issues"
    /\ tasks[TheTask].status = "issues"

C24_IssuesForceReviewModel ==
    sel.pc = "done"
    => LET c == sel.choice
           issuesNow == \/ tasks[sel.task].status = "issues"
                        \/ \E i \in IssueIds : /\ issues[i].status = "open"
                                                /\ issues[i].task = sel.task
           default == model_for_stage(agent, sel.stage)
       IN /\ (issuesNow /\ ~(c.explicit /\ c.force_model))
             => sel.model = "codex"
          /\ (c.explicit /\ (c.force_model \/ ~issuesNow))
             => sel.model = c.model
          /\ (~c.explicit /\ ~issuesNow /\ default # <<>>)
             => sel.model = default[1]
          /\ (~c.explicit /\ ~issuesNow /\ default = <<>>)
             => sel.model = c.model

\* the stored status has drifted to Running, the task has an open issue,
\* the caller named claude without the force flag: codex is used
C24_Witness ==
    /\ sel.pc = "done"
    /\ sel.task = TheTask
    /\ tasks[TheTask].status = "running"
    /\ issues[TheIssue].status = "open"
    /\ sel.choice = [model |-> "claude", explicit |-> TRUE, force_model |-> FALSE]
    /\ sel.model = "codex"

\* =================================================================
\* Properties of a stage attempt that ends without finish (SpecAttempt)

\* C25: when run_stage has returned NoFinish for a task that exists, the
\* command's next step writes Incomplete or Failed as the task's status
\* (never Running) and goes on to return; a command that is returning
\* starts nothing more.
C25_NoFinishMarksTask ==
    [][\A p \in Procs :
          /\ ( /\ pc[p] = "stage_ret"
               /\ res[p] = "nofinish"
               /\ pc'[p] # "stage_ret"
               /\ cur[p] # NoTask
               /\ tasks[cur[p]].exists )
             => /\ tasks'[cur[p]].status \in {"incomplete", "failed"}
                /\ pc'[p] = "exit"
          /\ pc[p] = "exit" => pc'[p] \in {"exit", "done"}
          /\ pc[p] = "done" => pc'[p] = "done"]_vars

\* start: the agent of the second stage has exited without finish and
\* the task it had created in the first stage is Failed
C25_Witness ==
    /\ cmd[1] = "start"
    /\ pc[1] = "done"
    /\ res[1] = "nofinish"
    /\ cur[1] = "t2"
    /\ tasks["t2"].status = "failed"

\* C31: a tick of the poll loop that ends the loop returns Interrupted
\* when the flag is set, whatever the session and the agent process are,
\* and Finished when the flag is clear and the session is Finished,
\* whether the process has exited or not; in both cases it goes through
\* terminate_child on its way out.
C31_PollOrder ==
    [][\A p \in Procs :
          (pc[p] = "poll" /\ pc'[p] \notin {"poll", "dead"})
          => /\ intr[p]
                  => /\ res'[p] = "interrupted"
                     /\ child'[p] = "terminated"
                     /\ pc'[p] = "stage_ret"
             /\ (~intr[p] /\ sessions[sid[p]].status = "finished")
                  => /\ res'[p] = "finished"
                     /\ child'[p] = "terminated"
                     /\ pc'[p] = "stage_ret"
             /\ (~intr[p] /\ sessions[sid[p]].status # "finished")
                  => /\ pc'[p] = "stage_after"
                     /\ child[p] = "exited"]_vars

\* Interrupted was returned although the session was Finished already
C31_Witness ==
    /\ pc[1] = "stage_ret"
    /\ res[1] = "interrupted"
    /\ child[1] = "terminated"
    /\ sessions[sid[1]].status = "finished"

\* C32: when the agent has exited and the session is not Finished after
\* the loop, run_stage sets the session Failed with finished_at and
\* returns NoFinish; it returns Finished only with a session whose status
\* is Finished; and on a return of NoFinish the session of the attempt is
\* not Running.
C32_NoFinishFailsSession ==
    [][\A p \in Procs :
          /\ ( /\ pc[p] = "stage_after" /\ pc'[p] # "stage_after"
               /\ sessions[sid[p]].status # "finished" )
             => pc'[p] \in {"stage_fail", "dead"}
          /\ (pc[p] = "stage_fail" /\ pc'[p] \notin {"stage_fail", "dead"})
             => /\ pc'[p] = "stage_ret"
                /\ res'[p] = "nofinish"
                /\ sessions'[sid[p]].status = "failed"
                /\ sessions'[sid[p]].finished_at
          /\ (pc[p] # "stage_ret" /\ pc'[p] = "stage_ret")
             => /\ res'[p] = "finished"
                   => sessions'[sid[p]].status = "finished"
                /\ res'[p] = "nofinish"
                   => sessions'[sid[p]].status # "running"]_vars

\* NoFinish has been returned for an agent that exited without finish
C32_Witness ==
    /\ pc[1] = "stage_ret"
    /\ res[1] = "nofinish"
    /\ child[1] = "none"
    /\ sessions[sid[1]].status = "failed"
    /\ sessions[sid[1]].finished_at



\* =================================================================
\* Properties of what the commands return (SpecReject)
\* =================================================================
\* the calls the commands ought to refuse
InvalidCall(o) ==
    \/ /\ o.cmd = "reorder"
       /\ \/ o.position = 0
          \/ tasks[o.task].exists /\ tasks[o.task].stage # "build"
          \/ tasks[o.task].exists /\ tasks[o.task].held
    \/ /\ o.cmd = "hold"
       /\ tasks[o.task].exists
       /\ tasks[o.task].status = "running"
    \/ /\ o.cmd \in {"issue_add", "issue_assign"}
       /\ o.stage # NoStage
       /\ o.stage = "completed" \/ o.stage \notin stages(agent)

\* the calls among them whose --stage the code looks at: an issue add with
\* a task, an issue assign of an issue that is not resolved
ValidatedCall(o) ==
    /\ InvalidCall(o)
    /\ o.cmd = "issue_add" => o.task # NoTask
    /\ o.cmd = "issue_assign" => issues[TheIssue].status # "resolved"

\* C26: a reorder with position 0, of a task that is not at build or of
\* a held task, a hold of a Running task, and an issue add or assign
\* whose stage override is "completed" or no stage of the agent return an
\* error and leave every task record as it was.
C26_InvalidRejected ==
    [][(out = IdleOut /\ out' # IdleOut /\ InvalidCall(out'))
          => (out'.result = "error" /\ tasks' = tasks)]_vars

\* an issue add or issue assign that returns an error: the one of
\* validate_issue_stage, or "Task not found" of update_task_for_issue
FailedIssueCall(o) ==
    /\ o.cmd \in {"issue_add", "issue_assign"}
    /\ \/ o.result = "error"
       \/ o.result = "update" /\ ~tasks[o.task].exists

\* C39: an issue add or issue assign that returns an error because the
\* named task does not exist, or because the stage override is unknown or
\* "completed", leaves the issue store unchanged: no new issue file
\* exists and no existing issue has been reassigned.
C39_FailedIssueCallKeepsStore ==
    [][(out = IdleOut /\ out' # IdleOut /\ FailedIssueCall(out'))
          => issues' = issues]_vars

\* what such a call does leave unchanged is every task record
FailedIssueCallKeepsTasks ==
    [][ /\ (out = IdleOut /\ out' # IdleOut /\ FailedIssueCall(out'))
             => tasks' = tasks
        /\ (op.kind = "issue_update" /\ op'.kind = "idle"
             /\ ~tasks[op.task].exists)
             => tasks' = tasks ]_vars

\* another live process holds a claim on task t that is within its ttl
ClaimedByOther(p, t) ==
    /\ t # NoTask
    /\ read_claim_ok(claims[t])
    /\ claims[t].pid # p
    /\ LiveClaim(claims[t], HostOf(p))

\* C40: run-queue does not retry a task that another live worker has
\* claimed: once claim_task has refused the task that next_eligible_task
\* chose and the loop has gone on, the next task it chooses is not one
\* that another live process holds a claim on.
C40_NoRetryOfClaimedTask ==
    [][\A p \in Procs :
         ( /\ cmd[p] = "run_queue"
           /\ pc[p] = "rq_top" /\ cur[p] = NoTask /\ ret[p] = "none"
           /\ pc'[p] = "claim_create" )
         => ~ClaimedByOther(p, cur'[p])]_vars

\* as long as nothing else changes the store, run-queue is back at the
\* same choice after every refused claim, with the free task t2 waiting
RetryLoop ==
    \A p \in Procs :
        ( /\ cmd[p] = "run_queue"
          /\ pc[p] = "rq_top" /\ cur[p] = NoTask /\ ret[p] = "none"
          /\ ClaimedByOther(p, TheTask)
          /\ Schedulable(tasks[TheTask]) /\ tasks[TheTask].stage = "build"
          /\ Schedulable(tasks["t2"]) /\ tasks["t2"].stage = "build"
          /\ tasks["t2"].added_at > tasks[TheTask].added_at
          /\ tasks["t2"].queue_rank = <<>> )
        => next_eligible_task(agent) = {[task |-> TheTask, stage |-> "build"]}

\* =================================================================
\* Properties of delete (SpecDelete)
\* =================================================================
\* C27: a delete without --force of a task with open issues returns an
\* error and leaves every task and every issue as it was; a delete that
\* goes through removes the task, keeps each of its open issues with no
\* task, and leaves every other issue, its resolved ones among them, as
\* the command found it.
C27_DeleteKeepsIssues ==
    [][/\ \A t \in Tasks :
            ( /\ out = IdleOut /\ out' # IdleOut /\ out'.cmd = "delete"
              /\ out'.task = t /\ ~out'.force
              /\ tasks[t].exists /\ OpenIssuesOf(t) # {} )
            => ( /\ out'.result = "error"
                 /\ tasks' = tasks /\ issues' = issues /\ op' = IdleOp )
       /\ (op.kind = "delete" /\ op'.kind = "idle")
            => ( /\ ~tasks'[op.task].exists
                 /\ out.force \/ \A i \in IssueIds :
                        ~(op.listed[i].status = "open"
                          /\ op.listed[i].task = op.task)
                 /\ \A i \in IssueIds :
                       issues'[i] =
                          IF op.listed[i].status = "open"
                             /\ op.listed[i].task = op.task
                          THEN [op.listed[i] EXCEPT !.task = NoTask]
                          ELSE op.listed[i] )]_vars

\* a forced delete has gone through: the task is gone, its open issue is
\* kept without a task, its resolved issue still names it
C27_Witness ==
    /\ out # IdleOut /\ out.cmd = "delete" /\ out.force /\ out.task = "t1"
    /\ op = IdleOp
    /\ ~tasks["t1"].exists
    /\ issues["i1"] = [status |-> "open", task |-> NoTask, type |-> "build"]
    /\ issues["i2"] = [status |-> "resolved", task |-> "t1", type |-> "build"]

\* =================================================================
\* Properties of task and queue (SpecCreate)
\* =================================================================
\* C28: task <name> and queue <name> for a task that exists return Ok
\* and leave its record (stage, status, held flag) as it was, and its
\* description too unless task was given one, which is then the stored
\* one; for a task that does not exist, what they create is at the
\* agent's initial stage with status Pending.
C28_CreateIdempotent ==
    [][\A t \in Tasks :
          ( /\ out = IdleOut /\ out' # IdleOut
            /\ out'.cmd \in {"task", "queue"} /\ out'.task = t )
          => IF tasks[t].exists
             THEN /\ out'.result = "ok"
                  /\ tasks'[t] = tasks[t]
                  /\ descr'[t] = IF out'.description # NoDescription
                                 THEN out'.description ELSE descr[t]
             ELSE \/ /\ out'.result = "ok"
                     /\ tasks'[t].exists
                     /\ tasks'[t].stage = initial_stage(agent)
                     /\ tasks'[t].status = "pending"
                  \/ /\ out'.result = "error"
                     /\ out'.cmd = "queue"
                     /\ tasks' = tasks]_vars

\* task t1 with no description has returned for a held task that has a
\* description and was moved off the initial stage
C28_Witness ==
    /\ out # IdleOut /\ out.cmd = "task" /\ out.description = NoDescription
    /\ tasks["t1"].exists /\ tasks["t1"].held
    /\ tasks["t1"].stage = "completed"
    /\ descr["t1"] = <<"d1">>

\* =================================================================
\* Properties of the stage graph (SpecStages)
\* =================================================================
\* C29: for both agent kinds the initial stage is in the stage list,
\* next_stage is defined on every stage of the list but "completed" and
\* gives a stage of the list, and a path of next_stage never comes back
\* to a stage it has left: it is no longer than the list, and so it
\* ends, at "completed", the one stage where next_stage is undefined.
C29_DefaultPathReachesCompleted ==
    /\ agent \in {"code", "writer"}
    /\ walk # NoWalk =>
         /\ initial_stage(agent) \in stages(agent)
         /\ \A t \in WorkTasks :
               /\ Last(walk[t]) \in stages(agent)
               /\ Last(walk[t]) # "completed"
                    => next_stage(agent, Last(walk[t])) \in stages(agent)
               /\ next_stage(agent, "completed") = NoStage
               /\ \A i, j \in DOMAIN walk[t] : i # j => walk[t][i] # walk[t][j]
               /\ Len(walk[t]) <= Cardinality(stages(agent))

\* both default paths followed to their ends from the initial stages
C29_Witness ==
    /\ walk # NoWalk
    /\ \/ /\ agent = "code"
          /\ walk["t1"] = <<"spec", "planning", "build", "review", "completed">>
       \/ /\ agent = "writer"
          /\ walk["t1"] = <<"init", "plan", "write", "edit", "completed">>
    /\ Last(walk["t2"]) = "completed"

\* =================================================================
\* Properties of finish and the session it leaves (SpecFinish)

\* C38: after a successful finish for a task, the next_stage recorded in
\* the Session equals the stage written to the Task, also when the task
\* has open issues.
C38_SessionAgreesWithTask ==
    [][ ( /\ fin.pc = "checked" /\ fin'.pc = "idle"
          /\ fin.task # NoTask
          /\ tasks[fin.task].exists )
        => sessions'[fin.sid].next_stage = tasks'[fin.task].stage ]_vars

\* the same without open issues: the two agree
AgreesWithoutOpenIssues ==
    [][ ( /\ fin.pc = "checked" /\ fin'.pc = "idle"
          /\ fin.task # NoTask
          /\ tasks[fin.task].exists
          /\ ~fin.has_open )
        => sessions'[fin.sid].next_stage = tasks'[fin.task].stage ]_vars

\* =================================================================
\* Properties of the issue file (SpecText)
\* =================================================================
\* the body parse_issue gives back for the body that was written
TrimmedBody(body) ==
    IF body = None \/ trim(body[1]) = <<>> THEN None ELSE Some(trim(body[1]))

\* C30: parse_issue(render_issue(issue)) succeeds for every issue and
\* gives back its id, title, status, priority, task, type, source,
\* created_at, updated_at and file, and its body trimmed, or None for a
\* body that is empty or whitespace.
C30_IssueRoundTrip ==
    doc.pc = "parsed"
      => /\ doc.back.ok
         /\ doc.back = [doc.issue EXCEPT !.body = TrimmedBody(doc.issue.body)]

\* the issues whose title is one trimmed line and whose task is not "-"
PlainIssue(issue) ==
    /\ issue.title = trim(issue.title)
    /\ \A k \in DOMAIN issue.title : issue.title[k] # "\n"
    /\ issue.task # Some(<<"-">>)

\* for those the round trip is as stated
PlainRoundTrip ==
    (doc.pc = "parsed" /\ PlainIssue(doc.issue))
      => /\ doc.back.ok
         /\ doc.back = [doc.issue EXCEPT !.body = TrimmedBody(doc.issue.body)]

\* no invalid call changes a task record, whatever it returns
InvalidWritesNothing ==
    [][(out = IdleOut /\ out' # IdleOut /\ InvalidCall(out'))
          => tasks' = tasks]_vars

\* the invalid calls whose stage override is looked at are refused
ValidatedRejected ==
    [][(out = IdleOut /\ out' # IdleOut /\ ValidatedCall(out'))
          => (out'.result = "error" /\ tasks' = tasks)]_vars


====
